---- MODULE Spec2Model ----
(***************************************************************************)
(* Session / data-synchronisation core of the open-banking dashboard.      *)
(*                                                                         *)
(*   SpecGateway : DirectLoginClient (token store, probe, request())       *)
(*   SpecCache   : getCachedOrFetch and the module-level cache             *)
(*   SpecSync    : fetchData on a signed-in dashboard, over every ledger   *)
(*   Spec        : the useBankingData hook (fetchData, checkAuthentication,*)
(*                 login, logout) running in the browser                   *)
(*                                                                         *)
(* Every await on a network call or a timer is a step boundary; code       *)
(* between two awaits is one atomic step (single-threaded event loop).     *)
(***************************************************************************)
EXTENDS Integers, Sequences, FiniteSets, TLC

VARIABLES
    \* ---- DirectLoginClient and browser storage -------------------------
    isBrowser,        \* typeof window !== "undefined"
    token,            \* DirectLoginClient.token
    cookie,           \* client-visible cookie obp_token
    ctorPc,           \* the constructor's deferred initializeFromCookie()
    reqPc,            \* position of the current request() call
    retryCount,       \* request(): retryCount
    targetFetches,    \* fetches of the target endpoint made by the current call
    respLog,          \* statuses the target endpoint answered to the current call
    sent,             \* header set of the last fetch of the target endpoint
    reqErr,           \* error the current call failed with
    lastSet,          \* argument of the last setToken() call
    setDuringInit,    \* setToken() ran while the constructor's probe was awaiting
    \* ---- resource cache ------------------------------------------------
    now,              \* Date.now()
    ticks,            \* clock advances so far
    cache,            \* module-level cache: key -> entry
    calls,            \* getCachedOrFetch calls made by each caller
    producerCalls,    \* invocations of producers so far
    cacheVersion,     \* number of writes (stores, invalidations) to the cache
    \* ---- useBankingData hook, browser and server --------------------------
    hook,             \* React state of the hook
    sync,             \* the fetchData() call in flight
    syncsLeft,        \* fetchData() calls the bound still allows
    caPc,             \* position of checkAuthentication()
    loPc,             \* position of logout()
    liPc,             \* position of login()
    currentPath,      \* window.location.pathname
    loggedOutFlag,    \* localStorage 'logged_out'
    srvCookie,        \* the server holds an http-only obp_token the upstream accepts
    srvTx,            \* upstream ledger: account -> completion dates of its transactions
    sessionEnded,     \* logout() has completed and login() was not called since
    \* ---- response normalisation and transformers --------------------------
    fnIn,             \* the value handed to the function under study
    fnOut             \* what it returned

gatewayVars == <<isBrowser, token, cookie, ctorPc, reqPc, retryCount,
                 targetFetches, respLog, sent, reqErr, lastSet, setDuringInit>>
cacheVars == <<now, ticks, cache, calls, producerCalls, cacheVersion>>
hookVars == <<hook, sync, syncsLeft, caPc, loPc, liPc, currentPath,
              loggedOutFlag, srvCookie, srvTx, sessionEnded>>
fnVars == <<fnIn, fnOut>>
vars == <<gatewayVars, cacheVars, hookVars, fnVars>>

(***************************************************************************)
(* Values                                                                  *)
(***************************************************************************)
NoToken == "null"
Sentinel == "verified-via-http-only"
BearerTokens == {"tokA", "tokB"}
TokenValues == BearerTokens \cup {Sentinel}
\* arguments setToken() is called with: a token, "" or null
SetTokenArgs == TokenValues \cup {"", NoToken}
None == "none"
NoCall == [op |-> "none"]
NoResult == [done |-> FALSE]

(***************************************************************************)
(* DirectLoginClient                                                       *)
(***************************************************************************)
maxRetriesMutant == 1 + 1
maxRetries == 1

\* `!this.token` / `!token`
Falsy(t) == t = NoToken \/ t = ""

hasToken == token # NoToken /\ token # ""
HasTokenOf(t) == t # NoToken /\ t # ""

\* request(): the Authorization header prepared for the held credential
AuthHeaderMutant(t) == IF ~Falsy(t) THEN t ELSE None
AuthHeader(t) == IF ~Falsy(t) /\ t # Sentinel THEN t ELSE None

RequestHeaders(t) ==
    [authorization |-> AuthHeader(t), held |-> t, credentials |-> "include"]

\* setTokenAsync(): no await inside, so setToken() is synchronous
SetTokenEffectMutant(t) ==
    IF Falsy(t)
    THEN /\ token' = token
         /\ cookie' = IF isBrowser THEN NoToken ELSE cookie
    ELSE /\ token' = t
         /\ cookie' = IF isBrowser THEN t ELSE cookie
SetTokenEffect(t) ==
    IF Falsy(t)
    THEN /\ token' = NoToken
         /\ cookie' = IF isBrowser THEN NoToken ELSE cookie
    ELSE /\ token' = t
         /\ cookie' = IF isBrowser THEN t ELSE cookie

SetToken(t) ==
    /\ SetTokenEffect(t)
    /\ lastSet' = t
    /\ setDuringInit' = (setDuringInit \/ ctorPc \in {"primary", "backup"})
    /\ UNCHANGED <<isBrowser, ctorPc, reqPc, retryCount, targetFetches,
                   respLog, sent, reqErr, cacheVars, hookVars, fnVars>>

\* verifyTokenWithTestRequest(): outcomes of the two probe fetches
\* what /api/test-connection?client=true can answer: 2xx with success and
\* authenticated ("auth"), 2xx without them ("unauth"), 2xx with a body
\* response.json() rejects or that is null ("malformed"), non-2xx ("notok"),
\* a rejected fetch ("neterr")
PrimaryOutcomes == {"auth", "unauth", "malformed", "notok", "neterr"}
\* what /api/banks can answer: its body is never read, so a 2xx is "ok" or
\* "okMalformed" by what the body holds
BackupOutcomes == {"ok", "okMalformed", "notok", "neterr"}

\* verifyTokenWithTestRequest() after its first fetch: return true, return
\* false from the outer catch, or fall through to the backup probe
PrimaryVerdictMutant(o) ==
    CASE o = "auth" -> "true"
      [] o = "neterr" -> "false"
      [] o = "malformed" -> "throw"
      [] OTHER -> "backup"

PrimaryVerdict(o) ==
    CASE o = "auth" -> "true"
      [] o \in {"neterr", "malformed"} -> "false"
      [] OTHER -> "backup"

\* verifyTokenWithTestRequest() after its second fetch: banksResponse.ok
BackupVerdict(o) == o \in {"ok", "okMalformed"}

\* ---- constructor: setTimeout(initializeFromCookie, 0) -------------------
CtorInit ==
    /\ ctorPc = "timer"
    /\ IF ~Falsy(token)
       THEN ctorPc' = "done" /\ UNCHANGED token
       ELSE IF ~Falsy(cookie)
            THEN token' = cookie /\ ctorPc' = "done"
            ELSE UNCHANGED token /\ ctorPc' = "primary"
    /\ UNCHANGED <<isBrowser, cookie, reqPc, retryCount, targetFetches,
                   respLog, sent, reqErr, lastSet, setDuringInit, cacheVars, hookVars, fnVars>>

CtorPrimary(o) ==
    /\ ctorPc = "primary"
    /\ CASE PrimaryVerdict(o) = "true" -> token' = Sentinel /\ ctorPc' = "done"
         [] PrimaryVerdict(o) = "false" -> UNCHANGED token /\ ctorPc' = "done"
         [] OTHER -> UNCHANGED token /\ ctorPc' = "backup"
    /\ UNCHANGED <<isBrowser, cookie, reqPc, retryCount, targetFetches,
                   respLog, sent, reqErr, lastSet, setDuringInit, cacheVars, hookVars, fnVars>>

CtorBackup(o) ==
    /\ ctorPc = "backup"
    /\ token' = IF BackupVerdict(o) THEN Sentinel ELSE token
    /\ ctorPc' = "done"
    /\ UNCHANGED <<isBrowser, cookie, reqPc, retryCount, targetFetches,
                   respLog, sent, reqErr, lastSet, setDuringInit, cacheVars, hookVars, fnVars>>

\* ---- request() ---------------------------------------------------------
TargetOutcomes == {"ok", "unauthorized", "failed", "neterr"}

\* the fetch of the target endpoint made while holding credential t, as the
\* (n+1)-th fetch of the call
SendTarget(t, n) ==
    /\ sent' = RequestHeaders(t)
    /\ targetFetches' = n + 1
    /\ reqPc' = "target"

\* executeRequest() from its first line to its first network await, entered
\* while holding credential t
ExecuteRequest(t, n) ==
    IF Falsy(t) /\ isBrowser
    THEN IF ~Falsy(cookie)
         THEN token' = cookie /\ SendTarget(cookie, n)
         ELSE /\ token' = t
              /\ reqPc' = "init_primary"
              /\ sent' = sent
              /\ targetFetches' = n
    ELSE token' = t /\ SendTarget(t, n)

RequestStart ==
    /\ reqPc \in {"idle", "ok", "error"}
    /\ retryCount' = 0
    /\ respLog' = <<>>
    /\ reqErr' = None
    /\ ExecuteRequest(token, 0)
    /\ UNCHANGED <<isBrowser, cookie, ctorPc, lastSet, setDuringInit, cacheVars, hookVars, fnVars>>

\* initializeFromCookie() awaited by executeRequest: primary probe answered
ReqInitPrimary(o) ==
    /\ reqPc = "init_primary"
    /\ CASE PrimaryVerdict(o) = "true" -> token' = Sentinel /\ SendTarget(Sentinel, targetFetches)
         [] PrimaryVerdict(o) = "false" ->
               IF Falsy(token)
               THEN /\ reqPc' = "verify_primary"
                    /\ UNCHANGED <<token, sent, targetFetches>>
               ELSE UNCHANGED token /\ SendTarget(token, targetFetches)
         [] OTHER -> reqPc' = "init_backup" /\ UNCHANGED <<token, sent, targetFetches>>
    /\ UNCHANGED <<isBrowser, cookie, ctorPc, retryCount, respLog, reqErr,
                   lastSet, setDuringInit, cacheVars, hookVars, fnVars>>

ReqInitBackup(o) ==
    /\ reqPc = "init_backup"
    /\ IF BackupVerdict(o)
       THEN token' = Sentinel /\ SendTarget(Sentinel, targetFetches)
       ELSE IF Falsy(token)
            THEN /\ reqPc' = "verify_primary"
                 /\ UNCHANGED <<token, sent, targetFetches>>
            ELSE UNCHANGED token /\ SendTarget(token, targetFetches)
    /\ UNCHANGED <<isBrowser, cookie, ctorPc, retryCount, respLog, reqErr,
                   lastSet, setDuringInit, cacheVars, hookVars, fnVars>>

\* the second verifyTokenWithTestRequest() of executeRequest
ReqVerifyPrimary(o) ==
    /\ reqPc = "verify_primary"
    /\ CASE PrimaryVerdict(o) = "true" -> token' = Sentinel /\ SendTarget(Sentinel, targetFetches)
         [] PrimaryVerdict(o) = "false" -> UNCHANGED token /\ SendTarget(token, targetFetches)
         [] OTHER -> reqPc' = "verify_backup" /\ UNCHANGED <<token, sent, targetFetches>>
    /\ UNCHANGED <<isBrowser, cookie, ctorPc, retryCount, respLog, reqErr,
                   lastSet, setDuringInit, cacheVars, hookVars, fnVars>>

ReqVerifyBackup(o) ==
    /\ reqPc = "verify_backup"
    /\ IF BackupVerdict(o)
       THEN token' = Sentinel /\ SendTarget(Sentinel, targetFetches)
       ELSE UNCHANGED token /\ SendTarget(token, targetFetches)
    /\ UNCHANGED <<isBrowser, cookie, ctorPc, retryCount, respLog, reqErr,
                   lastSet, setDuringInit, cacheVars, hookVars, fnVars>>

\* response.status === 401
IsUnauthorizedMutant(o) == o \in {"unauthorized", "failed"}
IsUnauthorized(o) == o = "unauthorized"

\* the target endpoint answers
TargetResp(o) ==
    /\ reqPc = "target"
    /\ respLog' = Append(respLog, o)
    /\ CASE o = "ok" ->
               reqPc' = "ok" /\ UNCHANGED <<token, cookie, reqErr>>
         [] IsUnauthorized(o) ->
               /\ token' = NoToken
               /\ cookie' = IF isBrowser THEN NoToken ELSE cookie
               /\ reqPc' = "recover_primary"
               /\ UNCHANGED reqErr
         [] o = "failed" ->
               /\ reqErr' = "Request failed"
               /\ reqPc' = "error"
               /\ UNCHANGED <<token, cookie>>
         [] OTHER ->
               /\ reqErr' = "fetch failed"
               /\ reqPc' = "error"
               /\ UNCHANGED <<token, cookie>>
    /\ UNCHANGED <<isBrowser, ctorPc, retryCount, targetFetches, sent,
                   lastSet, setDuringInit, cacheVars, hookVars, fnVars>>

\* recovery succeeded (the sentinel was adopted): retry once, else give up
RetryOrFail ==
    IF retryCount < maxRetries
    THEN /\ retryCount' = retryCount + 1
         /\ ExecuteRequest(Sentinel, targetFetches)
         /\ UNCHANGED reqErr
    ELSE /\ token' = Sentinel
         /\ reqErr' = "Not authenticated"
         /\ reqPc' = "error"
         /\ UNCHANGED <<retryCount, sent, targetFetches>>

ReqRecoverPrimary(o) ==
    /\ reqPc = "recover_primary"
    /\ CASE PrimaryVerdict(o) = "true" -> RetryOrFail
         [] PrimaryVerdict(o) = "false" ->
               /\ reqPc' = "refresh"
               /\ UNCHANGED <<token, retryCount, sent, targetFetches, reqErr>>
         [] OTHER ->
               /\ reqPc' = "recover_backup"
               /\ UNCHANGED <<token, retryCount, sent, targetFetches, reqErr>>
    /\ UNCHANGED <<isBrowser, cookie, ctorPc, respLog, lastSet, setDuringInit, cacheVars, hookVars, fnVars>>

ReqRecoverBackup(o) ==
    /\ reqPc = "recover_backup"
    /\ IF BackupVerdict(o)
       THEN RetryOrFail
       ELSE /\ reqPc' = "refresh"
            /\ UNCHANGED <<token, retryCount, sent, targetFetches, reqErr>>
    /\ UNCHANGED <<isBrowser, cookie, ctorPc, respLog, lastSet, setDuringInit, cacheVars, hookVars, fnVars>>

\* last resort: /api/test-connection?refresh=true
ReqRefresh(o) ==
    /\ reqPc = "refresh"
    /\ IF o = "auth"
       THEN RetryOrFail
       ELSE /\ reqErr' = "Not authenticated"
            /\ reqPc' = "error"
            /\ UNCHANGED <<token, retryCount, sent, targetFetches>>
    /\ UNCHANGED <<isBrowser, cookie, ctorPc, respLog, lastSet, setDuringInit, cacheVars, hookVars, fnVars>>

InitGatewayVars ==
    /\ isBrowser \in BOOLEAN
    /\ token = NoToken
    /\ cookie \in (IF isBrowser THEN {NoToken} \cup BearerTokens ELSE {NoToken})
    /\ ctorPc = IF isBrowser THEN "timer" ELSE "done"
    /\ reqPc = "idle"
    /\ retryCount = 0
    /\ targetFetches = 0
    /\ respLog = <<>>
    /\ sent = [authorization |-> None, held |-> None, credentials |-> None]
    /\ reqErr = None
    /\ lastSet = None
    /\ setDuringInit = FALSE

(***************************************************************************)
(* Resource cache: getCachedOrFetch                                        *)
(***************************************************************************)
CACHE_EXPIRATION == 300000

MaxTicks == 3
MaxCalls == 2
TickSizes == {1, CACHE_EXPIRATION - 1}

NumAccounts == 2
MaxSyncs == 2
MaxSessionSyncs == 1

DEFAULT_BANK_ID == "rbs"
DEFAULT_VIEW_ID == "owner"
OTHER_BANK_ID == "gh.29.uk"
Banks == {DEFAULT_BANK_ID, OTHER_BANK_ID}
AccountIds == 1..NumAccounts
BanksKey == <<"banks">>
AccountsKey(b) == <<"accounts", b>>
TransactionsKey(b, a, v) == <<"transactions", b, a, v>>
CacheKeys ==
    {BanksKey} \cup {AccountsKey(b) : b \in Banks}
       \cup {TransactionsKey(b, a, DEFAULT_VIEW_ID) : b \in Banks, a \in AccountIds}

NoEntry == [present |-> FALSE, timestamp |-> 0, data |-> None]
EmptyCache == [k \in CacheKeys |-> NoEntry]

\* `cachedItem && now - cachedItem.timestamp < CACHE_EXPIRATION`
CacheLiveMutant(c, k, n) == c[k].present /\ n - c[k].timestamp <= CACHE_EXPIRATION
CacheLive(c, k, n) == c[k].present /\ n - c[k].timestamp < CACHE_EXPIRATION

\* `cache[cacheKey] = { timestamp: now, data }`, now being the time captured
\* when the call began
CacheStore(c, k, n, d) ==
    [c EXCEPT ![k] = [present |-> TRUE, timestamp |-> n, data |-> d]]

Callers == {"c1", "c2"}
Payloads == {"p1", "p2"}
HarnessKeys == {BanksKey, AccountsKey("rbs")}
IdleCall == [state |-> "idle", key |-> BanksKey, start |-> 0, invoked |-> FALSE,
             result |-> None, verSeen |-> 0, verAfter |-> 0]

Tick(d) ==
    /\ ticks < MaxTicks
    /\ ticks' = ticks + 1
    /\ now' = now + d
    /\ UNCHANGED <<gatewayVars, hookVars, fnVars, cache, calls, producerCalls, cacheVersion>>

\* getCachedOrFetch(k, p) up to `await fetchFn()`
CacheGet(c, k) ==
    /\ calls[c].state \in {"idle", "done", "failed"}
    /\ producerCalls < MaxCalls
    /\ IF CacheLive(cache, k, now)
       THEN /\ calls' = [calls EXCEPT ![c] =
                  [state |-> "done", key |-> k, start |-> now, invoked |-> FALSE,
                   result |-> cache[k].data, verSeen |-> cacheVersion,
                   verAfter |-> cacheVersion]]
            /\ UNCHANGED producerCalls
       ELSE /\ calls' = [calls EXCEPT ![c] =
                  [state |-> "waiting", key |-> k, start |-> now, invoked |-> TRUE,
                   result |-> None, verSeen |-> cacheVersion,
                   verAfter |-> cacheVersion]]
            /\ producerCalls' = producerCalls + 1
    /\ UNCHANGED <<gatewayVars, hookVars, fnVars, now, ticks, cache, cacheVersion>>

\* the producer resolves with v: store and return
ProducerReturn(c, v) ==
    /\ calls[c].state = "waiting"
    /\ cache' = CacheStore(cache, calls[c].key, calls[c].start, v)
    /\ cacheVersion' = cacheVersion + 1
    /\ calls' = [calls EXCEPT ![c].state = "done", ![c].result = v,
                              ![c].verAfter = cacheVersion + 1]
    /\ UNCHANGED <<gatewayVars, hookVars, fnVars, now, ticks, producerCalls>>

\* the producer rejects: the error propagates, nothing is stored
ProducerFailMutant(c) ==
    /\ calls[c].state = "waiting"
    /\ calls' = [calls EXCEPT ![c].state = "failed"]
    /\ cache' = CacheStore(cache, calls[c].key, calls[c].start, None)
    /\ UNCHANGED <<gatewayVars, hookVars, fnVars, now, ticks, producerCalls, cacheVersion>>
ProducerFail(c) ==
    /\ calls[c].state = "waiting"
    /\ calls' = [calls EXCEPT ![c].state = "failed"]
    /\ UNCHANGED <<gatewayVars, hookVars, fnVars, now, ticks, cache, producerCalls, cacheVersion>>

\* `Object.keys(cache).forEach(key => delete cache[key])`
InvalidateAll ==
    /\ cache # EmptyCache
    /\ cache' = EmptyCache
    /\ cacheVersion' = cacheVersion + 1
    /\ UNCHANGED <<gatewayVars, hookVars, fnVars, now, ticks, calls, producerCalls>>

(***************************************************************************)
(* Upstream data and the transformation collaborator                       *)
(***************************************************************************)
\* ISO dates <<year, month, day>> and `new Date(iso).getTime()`
IsoDates == {<<2023, 12, 31>>, <<2024, 1, 1>>, <<2024, 1, 2>>}
DateGetTime(iso) == (iso[1] * 12 + (iso[2] - 1)) * 31 + (iso[3] - 1)
toISOString(t) == <<t \div 372, ((t \div 31) % 12) + 1, (t % 31) + 1>>

\* the bank list and the account list of the active bank
ServerBanks == <<DEFAULT_BANK_ID>>
ServerAccounts ==
    [i \in 1..NumAccounts |->
        [id |-> i, label |-> "text",
         balance |-> [present |-> TRUE, amount |-> [kind |-> "number", cents |-> 100 * i]]]]

\* the transactions an account's endpoint answers with: up to two
\* transactions, in either date order
RawTx(a, n, d) == [id |-> <<a, n>>, completed |-> d]
DateLists ==
    {<<>>} \cup {<<d>> : d \in IsoDates}
      \cup {<<<<2023, 12, 31>>, <<2024, 1, 2>>>>, <<<<2024, 1, 2>>, <<2024, 1, 1>>>>}
Ledgers == [AccountIds -> DateLists]
LeanLedger == [a \in AccountIds |-> <<<<2024, 1, 1>>>>]
ServerTransactions(a) == [n \in 1..Len(srvTx[a]) |-> RawTx(a, n, srvTx[a][n])]

\* balance amounts as JSON delivers them: a number or numeric string (in
\* cents), a non-numeric string, null, or no amount property at all
AmountKinds == {"number", "text", "null", "undefined"}
\* parseFloat(amount)
parseFloat(amount) ==
    IF amount.kind = "number" THEN [nan |-> FALSE, cents |-> amount.cents]
    ELSE [nan |-> TRUE, cents |-> 0]
\* n.toFixed(2): the string "NaN" for NaN, else the decimal string
toFixed(n) == IF n.nan THEN [nan |-> TRUE, cents |-> 0] ELSE [nan |-> FALSE, cents |-> n.cents]
\* the string "0.00"
ZeroBalance == [nan |-> FALSE, cents |-> 0]

\* transformAccounts: formattedBalance of one account
FormattedBalance(balance) ==
    IF balance.present /\ balance.amount.kind # "undefined"
    THEN toFixed(parseFloat(balance.amount))
    ELSE ZeroBalance

\* `(account.label ?? "").toLowerCase()` is a TypeError for a label that is
\* neither a string nor absent
TransformThrows(obpAccounts) ==
    \E i \in 1..Len(obpAccounts) : obpAccounts[i].label = "number"

transformAccounts(obpAccounts) ==
    [i \in 1..Len(obpAccounts) |->
        [id |-> obpAccounts[i].id, balance |-> FormattedBalance(obpAccounts[i].balance)]]

transformTransactions(obpTransactions) ==
    [i \in 1..Len(obpTransactions) |->
        [id |-> obpTransactions[i].id,
         date |-> toISOString(DateGetTime(obpTransactions[i].completed))]]

\* `!isNaN(Number.parseFloat(account.balance)) ? Number.parseFloat(account.balance) : 0`
ParsedBalanceMutant(balance) ==
    IF balance.nan THEN 0 ELSE (balance.cents \div 100) * 100
ParsedBalance(balance) == IF balance.nan THEN 0 ELSE balance.cents

\* transformedAccounts.reduce((sum, account) => sum + accountBalance, 0)
RECURSIVE SumBalances(_)
SumBalances(accs) ==
    IF accs = <<>> THEN 0
    ELSE ParsedBalance(accs[1].balance) + SumBalances(Tail(accs))

\* `allTransactions.sort((a, b) => new Date(b.date).getTime() - new Date(a.date).getTime())`
\* (Array.prototype.sort is stable)
RECURSIVE InsertByDate(_, _)
InsertByDate(t, sorted) ==
    IF sorted = <<>> THEN <<t>>
    ELSE IF DateGetTime(sorted[1].date) - DateGetTime(t.date) >= 0
         THEN <<sorted[1]>> \o InsertByDate(t, Tail(sorted))
         ELSE <<t>> \o sorted

RECURSIVE SortByDateDesc(_)
SortByDateDescMutant(txs) == txs
SortByDateDesc(txs) ==
    IF txs = <<>> THEN <<>>
    ELSE InsertByDate(txs[Len(txs)], SortByDateDesc(SubSeq(txs, 1, Len(txs) - 1)))

(***************************************************************************)
(* useBankingData: state                                                   *)
(***************************************************************************)
\* no sendMoney / topUpAccount under way; count is the number begun so far
NoTransfer == [pc |-> "idle", op |-> "none", from |-> 0, to |-> 0, amount |-> 0,
               count |-> 0]

\* closureAccounts: the `accounts` that sendMoney and topUpAccount read, those of
\* the render the two callbacks were built in (dependencies [selectedBank,
\* forceRefresh])
InitialHook ==
    [isLoading |-> TRUE, error |-> None, accounts |-> <<>>, transactions |-> <<>>,
     totalBalance |-> 0, isAuthenticated |-> FALSE,
     selectedBank |-> DEFAULT_BANK_ID, authCheckComplete |-> FALSE,
     money |-> NoTransfer, closureAccounts |-> <<>>]

Published(h) ==
    [accounts |-> h.accounts, transactions |-> h.transactions,
     totalBalance |-> h.totalBalance]

IdleSync ==
    [pc |-> "idle", outcome |-> "none", start |-> 0, data |-> <<>>,
     bankId |-> DEFAULT_BANK_ID, obpAccounts |-> <<>>, idx |-> 0, all |-> <<>>,
     got |-> <<>>, surfaced401 |-> FALSE, prev |-> Published(InitialHook),
     log |-> <<>>, overtaken |-> FALSE, hint |-> None, caught |-> None]

InitHookVars ==
    /\ hook = InitialHook
    /\ sync = IdleSync
    /\ syncsLeft = MaxSessionSyncs
    /\ caPc = [pc |-> "idle", isLoginPage |-> FALSE, onRoot |-> FALSE]
    /\ loPc = "idle"
    /\ liPc = "idle"
    /\ currentPath = "/dashboard"
    /\ loggedOutFlag = FALSE
    /\ srvCookie = FALSE
    /\ srvTx = LeanLedger
    /\ sessionEnded = FALSE
    /\ fnIn = NoCall
    /\ fnOut = NoResult

(***************************************************************************)
(* fetchData                                                               *)
(***************************************************************************)
\* what a sync does that the outside can see, in order: the loginProgress
\* events it emits (kind start, progress, complete) and the fetches of the
\* data endpoints it issues and sees settle (kind fetch, return, reject)
Ev(stage, kind) == [stage |-> stage, kind |-> kind]

\* the stage whose fetch is in flight at position pc
FetchStage(pc) ==
    CASE pc = "banks_fetch" -> "banks"
      [] pc \in {"acc_fetch", "acc_retry"} -> "accounts"
      [] pc = "tx_fetch" -> "transactions"
      [] OTHER -> "none"

\* the rejection of the fetch in flight, if any
Rejected(s) ==
    IF FetchStage(s.pc) = "none" THEN <<>> ELSE <<Ev(FetchStage(s.pc), "reject")>>

\* after the banks answer and the display delay: close the banks stage ...
BanksCompleteEvents == <<Ev("banks", "complete")>>
\* ... and open the accounts stage (the start event is emitted twice)
AccountsStartEventsMutant ==
    <<Ev("accounts", "start"), Ev("banks", "complete"), Ev("accounts", "start")>>
AccountsStartEvents ==
    BanksCompleteEvents \o <<Ev("accounts", "start"), Ev("accounts", "start")>>

\* fetchData() from its first line to its first await, with cache c at time n;
\* h is the state of the render fetchData was built in (it is rebuilt when
\* selectedBank changes):
\* setIsLoading(true), setError(null) are applied by StartedHook
StartedSync(h, c, n) ==
    [IdleSync EXCEPT
        !.pc = IF CacheLive(c, BanksKey, n) THEN "banks_got" ELSE "banks_fetch",
        !.log = <<Ev("banks", "start")>> \o
                (IF CacheLive(c, BanksKey, n) THEN <<>> ELSE <<Ev("banks", "fetch")>>),
        !.data = IF CacheLive(c, BanksKey, n) THEN c[BanksKey].data ELSE <<>>,
        !.start = n,
        !.bankId = h.selectedBank,
        !.prev = Published(h)]

StartedHook(h) == [h EXCEPT !.isLoading = TRUE, !.error = None]

\* an early return of fetchData: setError(msg); setIsLoading(false); return
EarlyReturnMutant(h, msg) == [h EXCEPT !.error = msg]
EarlyReturn(h, msg) == [h EXCEPT !.error = msg, !.isLoading = FALSE]

\* the catch / finally blocks of fetchData for a thrown error e
SyncFailMutant(e) ==
    /\ sync' = [sync EXCEPT !.pc = "idle", !.outcome = "error",
                            !.log = @ \o Rejected(sync)]
    /\ hook' = [hook EXCEPT !.error = e, !.isLoading = FALSE, !.accounts = <<>>,
                            !.transactions = <<>>, !.totalBalance = 0]
    /\ UNCHANGED <<cookie, currentPath>>
SyncFail(e) ==
    IF e = "Not authenticated"
    THEN /\ sync' = [sync EXCEPT !.pc = "idle", !.outcome = "redirect",
                                 !.surfaced401 = TRUE,
                                 !.log = @ \o Rejected(sync)]
         /\ cookie' = NoToken
         /\ hook' = [hook EXCEPT !.isAuthenticated = FALSE, !.isLoading = FALSE]
         /\ currentPath' = "/login"
    ELSE /\ sync' = [sync EXCEPT !.pc = "idle", !.outcome = "error",
                                 !.log = @ \o Rejected(sync)]
         /\ hook' = [hook EXCEPT !.error = e, !.isLoading = FALSE]
         /\ UNCHANGED <<cookie, currentPath>>

\* what the sync leaves alone
SyncFrame ==
    UNCHANGED <<isBrowser, token, ctorPc, reqPc, retryCount, targetFetches,
                respLog, sent, reqErr, lastSet, setDuringInit, now, ticks, calls, producerCalls,
                cacheVersion, caPc, loPc, liPc, loggedOutFlag, srvCookie, srvTx,
                fnVars,
                sessionEnded>>

\* errors the data endpoints answer with
FetchErrors == {"Not authenticated", "Failed to fetch"}

\* refreshData(): the UI starts a sync
RefreshData ==
    /\ sync.pc = "idle"
    /\ hook.isAuthenticated
    /\ syncsLeft > 0
    /\ syncsLeft' = syncsLeft - 1
    /\ sync' = StartedSync(hook, cache, now)
    /\ hook' = StartedHook(hook)
    /\ UNCHANGED <<cache, cookie, currentPath>>
    /\ SyncFrame

\* forceRefresh(): clear the cache, then fetchData()
ForceRefresh ==
    /\ sync.pc = "idle"
    /\ hook.isAuthenticated
    /\ syncsLeft > 0
    /\ syncsLeft' = syncsLeft - 1
    /\ cache' = EmptyCache
    /\ sync' = StartedSync(hook, EmptyCache, now)
    /\ hook' = StartedHook(hook)
    /\ UNCHANGED <<cookie, currentPath>>
    /\ SyncFrame

\* selectBank(b): setSelectedBank(b), then fetchData() as built by the render
\* selectBank runs in, which reads that render's selectedBank and not b
SelectBank(b) ==
    /\ b # hook.selectedBank
    /\ sync.pc = "idle"
    /\ hook.isAuthenticated
    /\ syncsLeft > 0
    /\ syncsLeft' = syncsLeft - 1
    /\ sync' = [StartedSync(hook, cache, now) EXCEPT !.hint = b]
    /\ hook' = StartedHook([hook EXCEPT !.selectedBank = b,
                                        !.closureAccounts = hook.accounts])
    /\ UNCHANGED <<cache, cookie, currentPath>>
    /\ SyncFrame

\* obpApi.getBanks() resolves with a list (possibly empty)
BanksResp(banks) ==
    /\ sync.pc = "banks_fetch"
    /\ cache' = CacheStore(cache, BanksKey, sync.start, banks)
    /\ sync' = [sync EXCEPT !.pc = "banks_got", !.data = banks,
                            !.log = Append(@, Ev("banks", "return"))]
    /\ UNCHANGED <<hook, cookie, currentPath, syncsLeft>>
    /\ SyncFrame

\* obpApi.getBanks() rejects
BanksFail(e) ==
    /\ sync.pc = "banks_fetch"
    /\ SyncFail(e)
    /\ UNCHANGED <<cache, syncsLeft>>
    /\ SyncFrame

\* selectedBank || banks[0]?.id || DEFAULT_BANK_ID, with the selectedBank of
\* the render fetchData was created in
ChooseBank(selected, banks) ==
    IF ~Falsy(selected) THEN selected
    ELSE IF Len(banks) > 0 THEN banks[1] ELSE DEFAULT_BANK_ID

\* after the banks stage's display delay: pick the bank, open the accounts stage
BanksDone ==
    /\ sync.pc = "banks_got"
    /\ IF Len(sync.data) = 0
       THEN /\ hook' = EarlyReturn(hook, "No banks available")
            /\ sync' = [sync EXCEPT !.pc = "idle", !.outcome = "error",
                                    !.log = @ \o BanksCompleteEvents]
       ELSE /\ hook' = [hook EXCEPT
                          !.selectedBank = ChooseBank(sync.bankId, sync.data),
                          !.closureAccounts =
                              IF ChooseBank(sync.bankId, sync.data) # hook.selectedBank
                              THEN hook.accounts ELSE @]
            /\ sync' = [sync EXCEPT !.pc = "acc_pre",
                                    !.bankId = ChooseBank(sync.bankId, sync.data),
                                    !.log = @ \o AccountsStartEvents]
    /\ UNCHANGED <<cache, cookie, currentPath, syncsLeft>>
    /\ SyncFrame

\* getCachedOrFetch(`accounts-${bankId}`, ...) begins
AccountsStart ==
    /\ sync.pc = "acc_pre"
    /\ LET k == AccountsKey(sync.bankId) IN
         sync' = IF CacheLive(cache, k, now)
                 THEN [sync EXCEPT !.pc = "acc_got", !.data = cache[k].data,
                                   !.log = Append(@, Ev("accounts", "progress"))]
                 ELSE [sync EXCEPT !.pc = "acc_fetch", !.start = now,
                                   !.log = @ \o <<Ev("accounts", "progress"),
                                                  Ev("accounts", "fetch")>>]
    /\ UNCHANGED <<hook, cache, cookie, currentPath, syncsLeft>>
    /\ SyncFrame

\* obpApi.getAccounts() resolves (first attempt or retry)
AccountsResp(accs) ==
    /\ sync.pc \in {"acc_fetch", "acc_retry"}
    /\ cache' = CacheStore(cache, AccountsKey(sync.bankId), sync.start, accs)
    /\ sync' = [sync EXCEPT !.pc = "acc_got", !.data = accs,
                            !.log = Append(@, Ev("accounts", "return"))]
    /\ UNCHANGED <<hook, cookie, currentPath, syncsLeft>>
    /\ SyncFrame

\* error instanceof OBPApiError && error.message === "Not authenticated"
RecoverableErrorMutant(e) == e \in {"Not authenticated", "Failed to fetch"}
RecoverableError(e) == e = "Not authenticated"

\* obpApi.getAccounts() rejects on the first attempt; the catch block keeps
\* the error (sync.caught) to re-throw it if the recovery fails
AccountsFail(e) ==
    /\ sync.pc = "acc_fetch"
    /\ IF RecoverableError(e)
       THEN /\ cookie' = NoToken
            /\ sync' = [sync EXCEPT !.pc = "acc_refresh", !.caught = e,
                                    !.log = @ \o Rejected(sync)]
            /\ UNCHANGED <<hook, currentPath>>
       ELSE SyncFail(e)
    /\ UNCHANGED <<cache, syncsLeft>>
    /\ SyncFrame

\* /api/test-connection?client=true&refresh=true answers
AccountsRefreshResp(o) ==
    /\ sync.pc = "acc_refresh"
    /\ CASE o = "auth" ->
               /\ sync' = [sync EXCEPT !.pc = "acc_retry",
                                       !.log = Append(@, Ev("accounts", "fetch"))]
               /\ UNCHANGED <<hook, cookie, currentPath>>
         [] o = "neterr" -> SyncFail("fetch failed")
         [] OTHER -> SyncFail(sync.caught)
    /\ UNCHANGED <<cache, syncsLeft>>
    /\ SyncFrame

\* the retried obpApi.getAccounts() rejects
AccountsRetryFail(e) ==
    /\ sync.pc = "acc_retry"
    /\ SyncFail(e)
    /\ UNCHANGED <<cache, syncsLeft>>
    /\ SyncFrame

\* a loginProgress event of the transactions stage with its accountsTotal and
\* currentAccount
EvN(stage, kind, total, current) ==
    [stage |-> stage, kind |-> kind, total |-> total, current |-> current]

\* processedCount++ and the progress event that follows account s.idx
TxProgress(s) == EvN("transactions", "progress", Len(s.obpAccounts), s.idx)

\* what the per-account catch block shows of itself
TxFailEventsMutant(s) == <<Ev("transactions", "reject")>>
TxFailEvents(s) == <<Ev("transactions", "reject"), TxProgress(s)>>

\* the transactions loop from account s.idx on: cached accounts are consumed
\* without leaving the event-loop turn, the first uncached one is fetched
RECURSIVE TxLoop(_, _, _)
TxLoop(s, c, n) ==
    IF s.idx > Len(s.obpAccounts)
    THEN [s EXCEPT !.pc = "tx_post"]
    ELSE LET k == TransactionsKey(s.bankId, s.obpAccounts[s.idx].id, DEFAULT_VIEW_ID) IN
         IF CacheLive(c, k, n)
         THEN TxLoop([s EXCEPT
                        !.all = @ \o transformTransactions(c[k].data),
                        !.got = Append(@, [ok |-> TRUE,
                                           txs |-> transformTransactions(c[k].data)]),
                        !.log = Append(@, TxProgress(s)),
                        !.idx = @ + 1], c, n)
         ELSE [s EXCEPT !.pc = "tx_fetch", !.start = n,
                        !.log = Append(@, Ev("transactions", "fetch"))]

\* after the accounts answer and the display delays: close the accounts stage
AccountsCompleteEvents == <<Ev("accounts", "progress"), Ev("accounts", "complete")>>

\* after the accounts stage's display delays: publish accounts and balance,
\* enter the transactions loop
AccountsDone ==
    /\ sync.pc = "acc_got"
    /\ IF Len(sync.data) = 0
       THEN /\ hook' = EarlyReturn(hook, "Failed to fetch valid account data")
            /\ sync' = [sync EXCEPT !.pc = "idle", !.outcome = "error",
                                    !.log = @ \o AccountsCompleteEvents]
       ELSE /\ hook' = [hook EXCEPT
                          !.accounts = transformAccounts(sync.data),
                          !.totalBalance = SumBalances(transformAccounts(sync.data))]
            /\ sync' = TxLoop([sync EXCEPT
                                 !.obpAccounts = sync.data, !.idx = 1,
                                 !.log = @ \o AccountsCompleteEvents
                                           \o <<EvN("transactions", "start",
                                                     Len(sync.data), 0)>>],
                              cache, now)
    /\ UNCHANGED <<cache, cookie, currentPath, syncsLeft>>
    /\ SyncFrame

\* obpApi.getTransactions() resolves for the current account
TxResp(txs) ==
    /\ sync.pc = "tx_fetch"
    /\ LET k == TransactionsKey(sync.bankId, sync.obpAccounts[sync.idx].id,
                                DEFAULT_VIEW_ID)
           c == CacheStore(cache, k, sync.start, txs)
       IN  /\ cache' = c
           /\ sync' = TxLoop([sync EXCEPT
                                !.all = @ \o transformTransactions(txs),
                                !.got = Append(@, [ok |-> TRUE,
                                                   txs |-> transformTransactions(txs)]),
                                !.log = @ \o <<Ev("transactions", "return"),
                                               TxProgress(sync)>>,
                                !.idx = @ + 1], c, now)
    /\ UNCHANGED <<hook, cookie, currentPath, syncsLeft>>
    /\ SyncFrame

\* the per-account catch block
TxFailureMutant(e) ==
    /\ SyncFail(e)
    /\ UNCHANGED cache
TxFailure(e) ==
    /\ sync' = TxLoop([sync EXCEPT
                         !.got = Append(@, [ok |-> FALSE, txs |-> <<>>]),
                         !.surfaced401 = @ \/ e = "Not authenticated",
                         !.log = @ \o TxFailEvents(sync),
                         !.idx = @ + 1], cache, now)
    /\ UNCHANGED <<hook, cache, cookie, currentPath>>

\* obpApi.getTransactions() rejects for the current account
TxFail(e) ==
    /\ sync.pc = "tx_fetch"
    /\ TxFailure(e)
    /\ UNCHANGED syncsLeft
    /\ SyncFrame

\* after the transactions stage's display delay: sort and publish
TxDone ==
    /\ sync.pc = "tx_post"
    /\ hook' = [hook EXCEPT !.transactions = SortByDateDesc(sync.all),
                            !.isAuthenticated = TRUE,
                            !.isLoading = FALSE]
    /\ sync' = [sync EXCEPT !.pc = "idle", !.outcome = "done",
                            !.log = Append(@, EvN("transactions", "complete",
                                                  Len(sync.obpAccounts),
                                                  Len(sync.obpAccounts)))]
    /\ UNCHANGED <<cache, cookie, currentPath, syncsLeft>>
    /\ SyncFrame

\* the upstream stops accepting the session token
SrvExpire ==
    /\ srvCookie
    /\ srvCookie' = FALSE
    /\ UNCHANGED <<gatewayVars, cacheVars, hook, sync, syncsLeft, caPc, loPc, liPc,
                   currentPath, loggedOutFlag, srvTx, sessionEnded, fnVars>>

(***************************************************************************)
(* checkAuthentication, login, logout                                      *)
(***************************************************************************)
IdleCheck == [pc |-> "idle", isLoginPage |-> FALSE, onRoot |-> FALSE]

\* `!isLoginPage && currentPath !== "/"`, both taken when the check began
RedirectsToLogin(ca) == ~ca.isLoginPage /\ ~ca.onRoot
LoginTokens == {"tokA"}
Paths == {"/login", "/dashboard"}

\* what checkAuthentication / login / logout leave alone
SessionFrame ==
    UNCHANGED <<isBrowser, ctorPc, reqPc, retryCount, targetFetches, respLog,
                sent, reqErr, lastSet, setDuringInit, now, ticks, calls, producerCalls, cacheVersion,
                srvTx, fnVars>>

\* the effect's checkAuthentication() up to its first await
CheckAuthStart ==
    /\ caPc.pc = "idle"
    /\ ~hook.authCheckComplete
    /\ LET isLoginPage == currentPath = "/login" IN
         /\ loggedOutFlag' = IF isLoginPage THEN FALSE ELSE loggedOutFlag
         /\ IF ~Falsy(cookie)
            THEN /\ SetTokenEffect(cookie)
                 /\ caPc' = [pc |-> "test1", isLoginPage |-> isLoginPage,
                             onRoot |-> currentPath = "/"]
            ELSE /\ UNCHANGED <<token, cookie>>
                 /\ caPc' = [pc |-> "test2", isLoginPage |-> isLoginPage,
                             onRoot |-> currentPath = "/"]
    /\ hook' = [hook EXCEPT !.isLoading = TRUE]
    /\ UNCHANGED <<cache, sync, syncsLeft, loPc, liPc, currentPath, srvCookie,
                   sessionEnded>>
    /\ SessionFrame

\* a probe reported an authenticated session: mark it, start fetchData()
CheckAuthAuthenticated ==
    /\ sync.pc = "idle"
    /\ syncsLeft > 0
    /\ loggedOutFlag' = FALSE
    /\ syncsLeft' = syncsLeft - 1
    /\ sync' = StartedSync(hook, cache, now)
    /\ hook' = StartedHook([hook EXCEPT !.isAuthenticated = TRUE,
                                        !.authCheckComplete = TRUE])
    /\ currentPath' = IF caPc.isLoginPage THEN "/dashboard" ELSE currentPath
    /\ caPc' = IdleCheck

\* no probe found a session
CheckAuthNotAuthenticated ==
    /\ hook' = [hook EXCEPT !.isAuthenticated = FALSE, !.isLoading = FALSE,
                            !.authCheckComplete = TRUE]
    /\ currentPath' = IF RedirectsToLogin(caPc) THEN "/login" ELSE currentPath
    /\ caPc' = IdleCheck
    /\ UNCHANGED <<loggedOutFlag, sync, syncsLeft>>

\* /api/test-connection answers the check made with a client-side cookie
CheckAuthTest1(o) ==
    /\ caPc.pc = "test1"
    /\ CASE o = "auth" -> CheckAuthAuthenticated
         [] o = "neterr" ->
               /\ hook' = [hook EXCEPT !.isAuthenticated = FALSE, !.isLoading = FALSE,
                                       !.authCheckComplete = TRUE]
               /\ caPc' = IdleCheck
               /\ UNCHANGED <<loggedOutFlag, sync, syncsLeft, currentPath>>
         [] OTHER ->
               /\ caPc' = [caPc EXCEPT !.pc = "test2"]
               /\ UNCHANGED <<hook, loggedOutFlag, sync, syncsLeft, currentPath>>
    /\ UNCHANGED <<token, cookie, cache, loPc, liPc, srvCookie, sessionEnded>>
    /\ SessionFrame

\* /api/test-connection answers the http-only cookie check; "undef" is a 2xx
\* answer that does not say authenticated: false
CheckAuthTest2(o) ==
    /\ caPc.pc = "test2"
    /\ CASE o = "auth" -> CheckAuthAuthenticated
         [] o = "undef" ->
               /\ caPc' = [caPc EXCEPT !.pc = "banks"]
               /\ UNCHANGED <<hook, loggedOutFlag, sync, syncsLeft, currentPath>>
         [] OTHER -> CheckAuthNotAuthenticated
    /\ UNCHANGED <<token, cookie, cache, loPc, liPc, srvCookie, sessionEnded>>
    /\ SessionFrame

\* /api/banks answers the second approach
CheckAuthBanks(o) ==
    /\ caPc.pc = "banks"
    /\ IF o = "ok" THEN CheckAuthAuthenticated ELSE CheckAuthNotAuthenticated
    /\ UNCHANGED <<token, cookie, cache, loPc, liPc, srvCookie, sessionEnded>>
    /\ SessionFrame

\* the login form calls login(): up to `await obpApi.login(...)`
LoginStart ==
    /\ currentPath = "/login"
    /\ ~hook.isAuthenticated
    /\ liPc = "idle"
    /\ loPc = "idle"
    /\ liPc' = "api"
    /\ hook' = [hook EXCEPT !.isLoading = TRUE, !.error = None]
    /\ loggedOutFlag' = FALSE
    /\ sessionEnded' = FALSE
    /\ UNCHANGED <<token, cookie, cache, sync, syncsLeft, caPc, loPc,
                   currentPath, srvCookie>>
    /\ SessionFrame

\* login() after obpApi.login() returned token t: the cookie is written only
\* when Cookies.get("obp_token") shows none
FallbackCookie(saved, t) == IF Falsy(saved) /\ ~Falsy(t) THEN t ELSE saved

\* /api/auth/login answers with a token: the server sets the http-only cookie,
\* obpApi.login() stores the token in the client (its cookie write happens, w,
\* or throws and is caught), login() returns and the login form pushes
\* "/dashboard"
LoginOk(t, w) ==
    /\ liPc = "api"
    /\ liPc' = "idle"
    /\ srvCookie' = TRUE
    /\ IF w
       THEN SetTokenEffect(t)
       ELSE token' = t /\ cookie' = FallbackCookie(cookie, t)
    /\ hook' = [hook EXCEPT !.isAuthenticated = TRUE, !.authCheckComplete = TRUE,
                            !.isLoading = FALSE]
    /\ loggedOutFlag' = FALSE
    /\ currentPath' = "/dashboard"
    /\ UNCHANGED <<cache, sync, syncsLeft, caPc, loPc, sessionEnded>>
    /\ SessionFrame

\* login()'s catch and finally blocks
LoginFailedMutant(h) == [h EXCEPT !.isAuthenticated = FALSE]
LoginFailed(h) == [h EXCEPT !.isAuthenticated = FALSE, !.isLoading = FALSE]

\* obpApi.login() rejects
LoginFail ==
    /\ liPc = "api"
    /\ liPc' = "idle"
    /\ hook' = LoginFailed(hook)
    /\ UNCHANGED <<token, cookie, cache, sync, syncsLeft, caPc, loPc,
                   currentPath, loggedOutFlag, srvCookie, sessionEnded>>
    /\ SessionFrame

\* the signed-in dashboard calls logout(): up to `await fetch('/api/auth/logout')`;
\* sync.overtaken records that a sync was in flight when it did
LogoutStart ==
    /\ currentPath = "/dashboard"
    /\ hook.isAuthenticated
    /\ loPc = "idle"
    /\ liPc = "idle"
    /\ loPc' = "api"
    /\ hook' = [hook EXCEPT !.accounts = <<>>, !.transactions = <<>>,
                            !.totalBalance = 0, !.isAuthenticated = FALSE]
    /\ SetTokenEffect("")
    /\ cache' = EmptyCache
    /\ sync' = [sync EXCEPT !.overtaken = sync.pc # "idle"]
    /\ UNCHANGED <<syncsLeft, caPc, liPc, currentPath, loggedOutFlag,
                   srvCookie, sessionEnded>>
    /\ SessionFrame

\* the logout route answers: 2xx clears the http-only cookie, an error
\* status leaves it; either way logout() goes on to its 500 ms delay
LogoutResp(o) ==
    /\ loPc = "api"
    /\ loPc' = "delay"
    /\ srvCookie' = IF o = "ok" THEN FALSE ELSE srvCookie
    /\ cookie' = NoToken
    /\ hook' = [hook EXCEPT !.authCheckComplete = FALSE]
    /\ UNCHANGED <<token, cache, sync, syncsLeft, caPc, liPc, currentPath,
                   loggedOutFlag, sessionEnded>>
    /\ SessionFrame

\* the logout fetch rejects: the catch block
LogoutNetErr ==
    /\ loPc = "api"
    /\ loPc' = "idle"
    /\ SetTokenEffect("")
    /\ hook' = [hook EXCEPT !.isAuthenticated = FALSE]
    /\ currentPath' = "/login"
    /\ sessionEnded' = TRUE
    /\ UNCHANGED <<cache, sync, syncsLeft, caPc, liPc, loggedOutFlag, srvCookie>>
    /\ SessionFrame

\* after the delay: router.push("/login?logged_out=true"); logout() returns
LogoutPush ==
    /\ loPc = "delay"
    /\ loPc' = "flag"
    /\ currentPath' = "/login"
    /\ sessionEnded' = TRUE
    /\ UNCHANGED <<token, cookie, cache, hook, sync, syncsLeft, caPc, liPc,
                   loggedOutFlag, srvCookie>>
    /\ SessionFrame

\* the 100 ms timer logout() left behind sets localStorage 'logged_out'
LogoutFlag ==
    /\ loPc = "flag"
    /\ loPc' = "idle"
    /\ loggedOutFlag' = TRUE
    /\ UNCHANGED <<token, cookie, cache, hook, sync, syncsLeft, caPc, liPc,
                   currentPath, srvCookie, sessionEnded>>
    /\ SessionFrame

\* the browser loads a page: module state and React state start afresh,
\* cookies, localStorage and the server keep theirs
PageLoad(path) ==
    /\ currentPath' = path
    /\ token' = NoToken
    /\ ctorPc' = "timer"
    /\ reqPc' = "idle"
    /\ cache' = EmptyCache
    /\ hook' = InitialHook
    /\ sync' = IdleSync
    /\ caPc' = IdleCheck
    /\ loPc' = "idle"
    /\ liPc' = "idle"
    /\ UNCHANGED <<isBrowser, cookie, retryCount, targetFetches, respLog, sent,
                   reqErr, lastSet, setDuringInit, now, ticks, calls, producerCalls, cacheVersion,
                   syncsLeft, loggedOutFlag, srvCookie, srvTx, sessionEnded,
                   fnVars>>

\* OBP_CONSUMER_KEY of the server: the login route answers 500 without it, so
\* a deployment that can sign anyone in has it
ConsumerKeyConfigured == TRUE

\* GET /api/banks: 401 when the request carries no token and no consumer key
\* is configured; otherwise the upstream is asked (with the token, else with
\* the consumer key) and its status decides
BanksRoute(carriesToken, consumerKey) ==
    IF ~carriesToken /\ ~consumerKey THEN {"notok"} ELSE {"ok", "notok"}

\* what the /api/banks probe can meet, whether or not the browser sends an
\* obp_token cookie
BanksProbeOutcomes ==
    {"neterr"} \cup UNION {BanksRoute(c, ConsumerKeyConfigured) : c \in BOOLEAN}

\* what the probe can answer, given the server-side session
ProbeOutcomes ==
    IF srvCookie THEN {"auth", "unauth", "notok", "neterr"}
    ELSE {"unauth", "notok", "neterr"}

SyncSteps ==
    \/ \E b \in {<<>>, ServerBanks} : BanksResp(b)
    \/ \E e \in FetchErrors : BanksFail(e)
    \/ BanksDone
    \/ AccountsStart
    \/ srvCookie /\ \E a \in {<<>>, ServerAccounts} : AccountsResp(a)
    \/ \E e \in FetchErrors : AccountsFail(e)
    \/ \E o \in ProbeOutcomes : AccountsRefreshResp(o)
    \/ \E e \in FetchErrors : AccountsRetryFail(e)
    \/ AccountsDone
    \/ srvCookie /\ sync.pc = "tx_fetch"
          /\ TxResp(ServerTransactions(sync.obpAccounts[sync.idx].id))
    \/ \E e \in FetchErrors : TxFail(e)
    \/ TxDone

InitCacheVars ==
    /\ now = 0
    /\ ticks = 0
    /\ cache = EmptyCache
    /\ calls = [c \in Callers |-> IdleCall]
    /\ producerCalls = 0
    /\ cacheVersion = 0

InitGateway == InitGatewayVars /\ InitCacheVars /\ InitHookVars

NextGateway ==
    \/ \E t \in SetTokenArgs : SetToken(t)
    \/ CtorInit
    \/ \E o \in PrimaryOutcomes : CtorPrimary(o)
    \/ \E o \in BackupOutcomes : CtorBackup(o)
    \/ RequestStart
    \/ \E o \in PrimaryOutcomes : ReqInitPrimary(o)
    \/ \E o \in BackupOutcomes : ReqInitBackup(o)
    \/ \E o \in PrimaryOutcomes : ReqVerifyPrimary(o)
    \/ \E o \in BackupOutcomes : ReqVerifyBackup(o)
    \/ \E o \in TargetOutcomes : TargetResp(o)
    \/ \E o \in PrimaryOutcomes : ReqRecoverPrimary(o)
    \/ \E o \in BackupOutcomes : ReqRecoverBackup(o)
    \/ \E o \in PrimaryOutcomes : ReqRefresh(o)

SpecGateway == InitGateway /\ [][NextGateway]_vars

InitCache ==
    /\ InitGatewayVars
    /\ isBrowser = TRUE
    /\ cookie = NoToken
    /\ InitCacheVars
    /\ InitHookVars

NextCache ==
    \/ \E d \in TickSizes : Tick(d)
    \/ \E c \in Callers, k \in HarnessKeys : CacheGet(c, k)
    \/ \E c \in Callers, v \in Payloads : ProducerReturn(c, v)
    \/ \E c \in Callers : ProducerFail(c)
    \/ InvalidateAll

SpecCache == InitCache /\ [][NextCache]_vars

\* a signed-in dashboard: the sync alone, over every upstream answer
InitSync ==
    /\ InitGatewayVars
    /\ isBrowser = TRUE
    /\ cookie \in BearerTokens
    /\ InitCacheVars
    /\ hook = [InitialHook EXCEPT !.isAuthenticated = TRUE, !.authCheckComplete = TRUE,
                                  !.isLoading = FALSE]
    /\ sync = IdleSync
    /\ syncsLeft = MaxSyncs
    /\ caPc = IdleCheck
    /\ loPc = "idle"
    /\ liPc = "idle"
    /\ currentPath = "/dashboard"
    /\ loggedOutFlag = FALSE
    /\ srvCookie = TRUE
    /\ srvTx \in Ledgers
    /\ sessionEnded = FALSE
    /\ fnIn = NoCall
    /\ fnOut = NoResult

NextSync ==
    \/ RefreshData
    \/ ForceRefresh
    \/ SrvExpire
    \/ SyncSteps

SpecSync == InitSync /\ [][NextSync]_vars

\* amounts (in cents) a transfer or top-up is asked for
TransferAmounts == {500}
MaxTransfers == 1

\* the transaction the send / topup route answers with
RouteTransaction == [id |-> 0, date |-> <<2024, 1, 2>>]

HasAccount(accs, id) == \E i \in DOMAIN accs : accs[i].id = id

\* (parseFloat(account.balance) + d).toFixed(2)
AddToBalance(balance, d) ==
    IF balance.nan THEN balance ELSE [nan |-> FALSE, cents |-> balance.cents + d]

\* what sendMoney / topUpAccount add to the balance of account id; in sendMoney
\* the test for fromAccountId comes first
BalanceDelta(t, id) ==
    CASE t.op = "send" /\ id = t.from -> 0 - t.amount
      [] t.op = "send" /\ id = t.to -> t.amount
      [] t.op = "topup" /\ id = t.to -> t.amount
      [] OTHER -> 0

\* setAccounts(prevAccounts => prevAccounts.map(...))
MapBalances(t, accs) ==
    [i \in DOMAIN accs |->
        [accs[i] EXCEPT !.balance = AddToBalance(@, BalanceDelta(t, accs[i].id))]]

\* accounts.reduce(...) over the accounts of the callback's render; the
\* balances of ServerAccounts are numbers, so parseFloat finds no NaN here
RECURSIVE ClosureTotal(_, _)
ClosureTotal(t, accs) ==
    IF accs = <<>> THEN 0
    ELSE accs[1].balance.cents + BalanceDelta(t, accs[1].id)
            + ClosureTotal(t, Tail(accs))

\* accounts.find(...) over the accounts of the callback's render
FoundInClosure(t, accs) ==
    IF t.op = "send" THEN HasAccount(accs, t.from) /\ HasAccount(accs, t.to)
    ELSE HasAccount(accs, t.to)

\* sendMoney(from, to, amount) / topUpAccount(to, amount) up to `await fetch`
MoneyStart(op, from, to, amount) ==
    /\ hook.money.pc = "idle"
    /\ hook.money.count < MaxTransfers
    /\ hook.isAuthenticated
    /\ hook' = [hook EXCEPT !.isLoading = TRUE,
                            !.money = [pc |-> "api", op |-> op,
                                       from |-> IF op = "send" THEN from ELSE 0,
                                       to |-> to, amount |-> amount,
                                       count |-> hook.money.count + 1]]
    /\ UNCHANGED <<sync, syncsLeft, cache, cookie, currentPath>>
    /\ SyncFrame

\* the route answers 2xx with result.transaction
MoneyOk ==
    /\ hook.money.pc = "api"
    /\ LET t == hook.money
           found == FoundInClosure(t, hook.closureAccounts) IN
       hook' = [hook EXCEPT
                  !.transactions = <<RouteTransaction>> \o @,
                  !.accounts = IF found THEN MapBalances(t, @) ELSE @,
                  !.totalBalance = IF found THEN ClosureTotal(t, hook.closureAccounts)
                                   ELSE @,
                  !.isLoading = FALSE,
                  !.money = [t EXCEPT !.pc = "idle"]]
    /\ UNCHANGED <<sync, syncsLeft, cache, cookie, currentPath>>
    /\ SyncFrame

\* the route answers non-2xx or the fetch rejects: the error is re-thrown
MoneyFail ==
    /\ hook.money.pc = "api"
    /\ hook' = [hook EXCEPT !.isLoading = FALSE,
                            !.money = [hook.money EXCEPT !.pc = "idle", !.op = "none"]]
    /\ UNCHANGED <<sync, syncsLeft, cache, cookie, currentPath>>
    /\ SyncFrame

\* the signed-in dashboard with its transfer and top-up forms
InitMoney ==
    /\ InitSync
    /\ srvTx = LeanLedger

NextMoney ==
    \/ RefreshData
    \/ \E b \in Banks : SelectBank(b)
    \/ SyncSteps
    \/ \E op \in {"send", "topup"}, from \in AccountIds, to \in AccountIds,
            amount \in TransferAmounts : MoneyStart(op, from, to, amount)
    \/ MoneyOk
    \/ MoneyFail

SpecMoney == InitMoney /\ [][NextMoney]_vars

\* bank lists the upstream may publish
BankLists ==
    {<<>>, <<DEFAULT_BANK_ID>>, <<OTHER_BANK_ID>>,
     <<DEFAULT_BANK_ID, OTHER_BANK_ID>>, <<OTHER_BANK_ID, DEFAULT_BANK_ID>>}

\* the signed-in dashboard with its bank selector
InitBank ==
    /\ InitSync
    /\ srvTx = LeanLedger

NextBank ==
    \/ \E b \in Banks : SelectBank(b)
    \/ RefreshData
    \/ \E b \in BankLists : BanksResp(b)
    \/ SyncSteps

SpecBank == InitBank /\ [][NextBank]_vars

\* the signed-in dashboard syncing, every fetch of a sync in flight being
\* answered or failing in the end
NextLive == RefreshData \/ SrvExpire \/ SyncSteps

SpecLive == InitBank /\ [][NextLive]_vars /\ WF_vars(SyncSteps)

\* what the producer of key k resolves with
ServerPayload(k) == IF k = BanksKey THEN ServerBanks ELSE ServerAccounts

\* forceRefresh() on a dashboard where another run of fetchData (the initial
\* load, a refreshData) may be under way: that run's getCachedOrFetch calls
\* are the calls of Callers
InitForce ==
    /\ InitSync
    /\ srvTx = LeanLedger

NextForce ==
    \/ ForceRefresh
    \/ \E c \in Callers, k \in HarnessKeys : CacheGet(c, k)
    \/ \E c \in Callers : ProducerReturn(c, ServerPayload(calls[c].key))
    \/ SyncSteps

SpecForce == InitForce /\ [][NextForce]_vars

(***************************************************************************)
(* Gateway claims                                                          *)
(***************************************************************************)

\* C1: one call of request() fetches the target endpoint at most twice; when
\* both the original and the retried attempt are answered 401, exactly two
\* fetches were made, no third one follows, and the call fails with
\* "Not authenticated".
C1_RetryBound ==
    /\ targetFetches <= 2
    /\ Len(respLog) <= targetFetches
    /\ respLog = <<"unauthorized", "unauthorized">> =>
          /\ targetFetches = 2
          /\ reqPc \in {"recover_primary", "recover_backup", "refresh", "error"}
          /\ reqPc = "error" => reqErr = "Not authenticated"

C1_Witness ==
    /\ reqPc = "error"
    /\ respLog = <<"unauthorized", "unauthorized">>
    /\ targetFetches = 2
    /\ reqErr = "Not authenticated"

\* C4: every fetch of the target endpoint carries an Authorization header
\* exactly when the credential held at that moment is a real bearer token,
\* the header then holds that token, the sentinel is never sent, and cookies
\* are always forwarded (credentials: include).
C4_AuthHeaderIffBearer ==
    sent.credentials # None =>
       /\ sent.credentials = "include"
       /\ (sent.authorization # None) <=> (sent.held \in BearerTokens)
       /\ sent.authorization # None => sent.authorization = sent.held
       /\ sent.authorization # Sentinel

C4_Witness ==
    /\ sent.credentials = "include"
    /\ sent.held = Sentinel
    /\ sent.authorization = None

\* C6: right after setToken(t), hasToken() is true when t is a non-empty
\* token and false when t is the empty or null credential.
C6_SetThenHas ==
    [][\A t \in SetTokenArgs :
          SetToken(t) => (HasTokenOf(token') <=> ~Falsy(t))]_vars

C6_Witness == lastSet \in BearerTokens /\ token = lastSet /\ hasToken

(***************************************************************************)
(* Cache claims                                                            *)
(***************************************************************************)
\* call b looked the key up in exactly the cache state call a left behind
SawStoreOf(a, b) ==
    /\ calls[a].state = "done"
    /\ calls[a].invoked
    /\ calls[b].state # "idle"
    /\ calls[b].key = calls[a].key
    /\ calls[b].verSeen = calls[a].verAfter

\* C5: of two successive calls of getCachedOrFetch(k, p), the first of which
\* fetched and stored, the second invokes the producer again exactly when it
\* begins CACHE_EXPIRATION or more after the first began; within the window
\* it returns the stored payload without invoking the producer.
C5_CacheIdempotence ==
    \A a \in Callers : \A b \in Callers \ {a} :
       SawStoreOf(a, b) =>
          /\ calls[b].invoked <=> (calls[b].start - calls[a].start >= CACHE_EXPIRATION)
          /\ ~calls[b].invoked =>
                calls[b].state = "done" /\ calls[b].result = calls[a].result

C5_Witness ==
    \E a \in Callers : \E b \in Callers \ {a} :
       /\ SawStoreOf(a, b)
       /\ calls[b].start - calls[a].start = CACHE_EXPIRATION - 1
       /\ ~calls[b].invoked
       /\ producerCalls = 1

\* a page load of the dashboard or the login page in the browser
Init ==
    /\ InitGatewayVars
    /\ isBrowser = TRUE
    /\ cookie \in {NoToken} \cup BearerTokens
    /\ InitCacheVars
    /\ hook = InitialHook
    /\ sync = IdleSync
    /\ syncsLeft = MaxSessionSyncs
    /\ caPc = IdleCheck
    /\ loPc = "idle"
    /\ liPc = "idle"
    /\ currentPath \in Paths
    /\ loggedOutFlag = FALSE
    /\ srvCookie \in BOOLEAN
    /\ srvTx = LeanLedger
    /\ sessionEnded = FALSE
    /\ fnIn = NoCall
    /\ fnOut = NoResult

Next ==
    \/ CtorInit
    \/ \E o \in ProbeOutcomes : CtorPrimary(o)
    \/ \E o \in BanksProbeOutcomes : CtorBackup(o)
    \/ CheckAuthStart
    \/ \E o \in ProbeOutcomes : CheckAuthTest1(o)
    \/ \E o \in ProbeOutcomes \cup {"undef"} : CheckAuthTest2(o)
    \/ \E o \in BanksProbeOutcomes : CheckAuthBanks(o)
    \/ LoginStart
    \/ \E t \in LoginTokens, w \in BOOLEAN : LoginOk(t, w)
    \/ LoginFail
    \/ LogoutStart
    \/ \E o \in {"ok", "notok"} : LogoutResp(o)
    \/ LogoutNetErr
    \/ LogoutPush
    \/ LogoutFlag
    \/ \E path \in Paths : PageLoad(path)
    \/ RefreshData
    \/ SrvExpire
    \/ SyncSteps

Spec == Init /\ [][Next]_vars

(***************************************************************************)
(* Claims about one sync (SpecSync)                                        *)
(***************************************************************************)
Range(q) == {q[i] : i \in DOMAIN q}
SeqToBag(q) == [x \in Range(q) |-> Cardinality({i \in DOMAIN q : q[i] = x})]
IsPermutation(p, q) == Len(p) = Len(q) /\ SeqToBag(p) = SeqToBag(q)

RECURSIVE Flatten(_)
Flatten(qs) == IF qs = <<>> THEN <<>> ELSE Head(qs) \o Flatten(Tail(qs))

SucceededTxs == Flatten([i \in DOMAIN sync.got |-> sync.got[i].txs])
FailedAccounts == {i \in DOMAIN sync.got : ~sync.got[i].ok}
SyncEnded == sync.pc = "idle" /\ sync.outcome # "none"

\* C7: in the transactions stage, a failed transaction fetch for any subset of
\* the accounts does not abort the sync: the sync completes, the published
\* transactions are exactly those of the accounts whose fetch succeeded, and
\* the published account list still has all N accounts.
C7_PartialFailureTolerated ==
    /\ (SyncEnded /\ sync.got # <<>>) => sync.outcome = "done"
    /\ sync.outcome = "done" =>
          /\ Len(sync.got) = Len(sync.obpAccounts)
          /\ IsPermutation(hook.transactions, SucceededTxs)
          /\ Len(hook.accounts) = Len(sync.obpAccounts)
          /\ \A i \in DOMAIN sync.obpAccounts : hook.accounts[i].id = sync.obpAccounts[i].id
C7_Witness ==
    /\ sync.outcome = "done"
    /\ FailedAccounts # {}
    /\ FailedAccounts # DOMAIN sync.got
    /\ hook.transactions # <<>>
    /\ Len(hook.accounts) = NumAccounts

\* C8: an authentication failure (401, 'Not authenticated') raised by an
\* upstream fetch at any stage of a sync - banks, accounts or the transaction
\* fetch of any account - ends that sync with isAuthenticated = false, the
\* client cookie removed and a redirect to login.
C8_AuthFailureEndsSync ==
    (SyncEnded /\ sync.surfaced401) =>
        /\ sync.outcome = "redirect"
        /\ ~hook.isAuthenticated
        /\ cookie = NoToken
        /\ currentPath = "/login"

\* C9: when a sync fails with a non-authentication error, the previously
\* published accounts, transactions and totalBalance are unchanged and only
\* the error message is set.
C9_ErrorLeavesDataInPlace ==
    sync.outcome = "error" =>
        /\ Published(hook) = sync.prev
        /\ hook.error # None
C9_Witness ==
    /\ sync.outcome = "error"
    /\ hook.accounts # <<>>
    /\ hook.transactions # <<>>
    /\ hook.error = "Failed to fetch"

DistinctDates(q) == \A i, j \in DOMAIN q : i # j => q[i].date # q[j].date
StrictlyDescending(q) ==
    \A i, j \in DOMAIN q : i < j => DateGetTime(q[i].date) > DateGetTime(q[j].date)

\* C10: for transactions with distinct ISO dates gathered from the accounts,
\* the list a successful sync publishes is a permutation of the gathered
\* transactions, sorted strictly descending by date.
C10_SortedDescending ==
    (sync.outcome = "done" /\ DistinctDates(sync.all)) =>
        /\ IsPermutation(hook.transactions, sync.all)
        /\ StrictlyDescending(hook.transactions)
C10_Witness ==
    /\ sync.outcome = "done"
    /\ DistinctDates(sync.all)
    /\ Len(sync.all) = 3
    /\ hook.transactions # sync.all
    /\ StrictlyDescending(hook.transactions)

\* C18: whenever request() fails with "Not authenticated" (an unrecovered
\* 401), the client holds no credential at the moment the error is raised:
\* hasToken() is false.  Stated for the calls no setToken() runs alongside
\* (lastSet = None), where only request() itself touches the credential.
C18_UnrecoveredClearsCredential ==
    [][(/\ lastSet' = None
        /\ reqPc # "error"
        /\ reqPc' = "error"
        /\ reqErr' = "Not authenticated")
          => ~hasToken']_vars

\* C19: a probe of the constructor's initializeFromCookie() that was awaiting
\* its answer when setToken() set or cleared the credential does not
\* overwrite that decision when it completes: the step that ends the probe
\* leaves the held credential as it finds it.
C19_ProbeKeepsLaterDecision ==
    [][(/\ setDuringInit
        /\ ctorPc \in {"primary", "backup"}
        /\ ctorPc' = "done")
          => token' = token]_vars

\* request() is inside the probe sequence of initializeFromCookie()
InFirstProbe == reqPc \in {"init_primary", "init_backup"}

\* C21: a request() made with no credential held attempts the probe at most
\* once before the target request: when the probe sequence ends, whatever its
\* verdict, the next thing the call does is send the target request.
C21_OneProbeThenTarget ==
    [][(InFirstProbe /\ ~InFirstProbe') => reqPc' = "target"]_vars

\* the primary probe of the constructor's initializeFromCookie() ends without
\* an authenticated verdict
PrimaryProbeFails ==
    \E o \in PrimaryOutcomes : PrimaryVerdict(o) # "true" /\ CtorPrimary(o)

\* C22: the probe tries its sources in order: with a client-visible cookie no
\* network probe is issued, and without one, whenever the primary probe does
\* not yield an authenticated verdict (error status, unauthenticated body or
\* an error) the secondary probe against /api/banks is issued before "not
\* authenticated" is reported.
C22_ProbeSourcesInOrder ==
    [][/\ (CtorInit /\ ~Falsy(cookie)) => ctorPc' = "done"
       /\ PrimaryProbeFails => ctorPc' = "backup"]_vars

\* the target endpoint answers the call with an error status other than 401
TargetAnswersFailed == reqPc = "target" /\ respLog' = Append(respLog, "failed")

C2_LoggedOutStaysClean ==
    sessionEnded => (~hasToken /\ \A k \in CacheKeys : ~cache[k].present)

\* C3: after logout(), checkAuthentication() does not mark the session
\* authenticated and does not start a sync, even if the server-side http-only
\* cookie is still valid, as long as the logged-out flag has not been cleared.
C3_LoggedOutFlagRespected ==
    [][(loggedOutFlag /\ caPc.pc # "idle" /\ caPc'.pc = "idle")
          => (~hook'.isAuthenticated /\ syncsLeft' = syncsLeft)]_vars


\* C15: when login() returns successfully the client holds the token the
\* login answered with, the client-visible obp_token cookie holds that same
\* token (also when obpApi.login()'s own cookie write did not happen),
\* isAuthenticated is true, the logged_out flag is cleared and login() has
\* started no sync.
C15_LoginEstablishesSession ==
    [][(liPc = "api" /\ liPc' = "idle" /\ hook'.isAuthenticated)
          => /\ token' \in LoginTokens
             /\ cookie' = token'
             /\ ~loggedOutFlag'
             /\ sync' = sync
             /\ syncsLeft' = syncsLeft]_vars

\* what logout() is to leave behind
LoggedOutClean ==
    /\ hook.accounts = <<>>
    /\ hook.transactions = <<>>
    /\ hook.totalBalance = 0
    /\ ~hook.isAuthenticated
    /\ \A k \in CacheKeys : ~cache[k].present
    /\ token = NoToken
    /\ cookie = NoToken
    /\ currentPath = "/login"
    /\ loggedOutFlag

\* C16: whatever the logout request met (2xx, an error status, a rejected
\* fetch), when logout() has run to its end the UI data is cleared,
\* isAuthenticated is false, the cache is empty, the credential and the cookie
\* are gone, the redirect to the login page is issued and the logged-out
\* marker is set.
C16_LogoutAlwaysCleansUp ==
    [][(LogoutNetErr \/ LogoutFlag) => LoggedOutClean']_vars

\* logout() has cleared the client state and login() has not been called since
LoggedOut == loPc # "idle" \/ sessionEnded

\* C17: once logout() has cleared the state, and until the next login(), no
\* step of a sync that was in flight when logout() was called writes accounts,
\* transactions or totalBalance, stores a cache entry, or sets isAuthenticated
\* to true.
C17_NoSyncWritesAfterLogout ==
    [][(LoggedOut /\ sync.overtaken /\ SyncSteps)
          => /\ hook'.accounts = hook.accounts
             /\ hook'.transactions = hook.transactions
             /\ hook'.totalBalance = hook.totalBalance
             /\ \A k \in CacheKeys : cache'[k].present => cache[k].present
             /\ hook'.isAuthenticated => hook.isAuthenticated]_vars

\* a probe reports an authenticated session: the constructor's
\* verifyTokenWithTestRequest() returns true, or checkAuthentication() marks
\* the session authenticated
ProbeSaysAuthenticated ==
    \/ \E o \in PrimaryOutcomes : PrimaryVerdict(o) = "true" /\ CtorPrimary(o)
    \/ \E o \in BackupOutcomes : BackupVerdict(o) /\ CtorBackup(o)
    \/ /\ caPc.pc # "idle"
       /\ caPc'.pc = "idle"
       /\ hook'.isAuthenticated
       /\ hook'.authCheckComplete

\* C20: a probe reports authenticated only if the backing service accepted
\* the obp_token cookie of the request as a valid credential; without a valid
\* cookie neither the /api/test-connection probe nor the /api/banks probe
\* leads to an authenticated verdict.
C20_AuthenticatedOnlyWithSession ==
    [][ProbeSaysAuthenticated => srvCookie]_vars

\* the stages in the order fetchData walks them
StageRank(stage) ==
    CASE stage = "banks" -> 1
      [] stage = "accounts" -> 2
      [] stage = "transactions" -> 3

\* the fetches of a stage issued before position i of log l and not settled
\* before it
InFlightBefore(l, i, stage) ==
    Cardinality({k \in 1..(i - 1) : l[k] = Ev(stage, "fetch")})
      - Cardinality({k \in 1..(i - 1) :
                       l[k].stage = stage /\ l[k].kind \in {"return", "reject"}})

\* C14: within one sync the stages run in the order banks, accounts,
\* transactions: nothing of a stage (event or fetch) comes after anything of a
\* later stage, the accounts fetch is issued only when no banks fetch is
\* outstanding, and a transactions fetch only when no accounts fetch is.
C14_StagesInOrder ==
    /\ \A i, j \in DOMAIN sync.log :
          i < j => StageRank(sync.log[i].stage) <= StageRank(sync.log[j].stage)
    /\ \A i \in DOMAIN sync.log :
          /\ sync.log[i] = Ev("accounts", "fetch")
                => InFlightBefore(sync.log, i, "banks") = 0
          /\ sync.log[i] = Ev("transactions", "fetch")
                => InFlightBefore(sync.log, i, "accounts") = 0

C14_Witness ==
    /\ sync.outcome = "done"
    /\ \E i, j, k \in DOMAIN sync.log :
          /\ i < j /\ j < k
          /\ sync.log[i] = Ev("banks", "return")
          /\ sync.log[j] = Ev("accounts", "fetch")
          /\ sync.log[k] = Ev("transactions", "fetch")
    /\ sync.log[Len(sync.log)].stage = "transactions"
    /\ sync.log[Len(sync.log)].kind = "complete"

\* the events of one kind the transactions stage has emitted, in order
TxEvents(kind) ==
    LET Is(e) == e.stage = "transactions" /\ e.kind = kind
    IN  SelectSeq(sync.log, Is)

\* the accounts of the transactions stage done with so far: every fetch that
\* settled and every account served from the cache
TxAccountsDone == Len(sync.got)

\* C24: in the transactions stage over N >= 1 accounts one progress event
\* follows each account, fetched or failed; the progress events count 1, 2,
\* ..., never beyond the total N the start event announced; and the complete
\* event comes after the N-th progress event.
C24_ProgressCountsEveryAccount ==
    LET N == Len(sync.obpAccounts)
        P == TxEvents("progress")
    IN  /\ Len(P) = TxAccountsDone
        /\ Len(P) <= N
        /\ \A i \in DOMAIN P : P[i].current = i /\ P[i].total = N
        /\ \A i \in DOMAIN TxEvents("start") : TxEvents("start")[i].total = N
        /\ Len(P) > 0 => Len(TxEvents("start")) = 1
        /\ \A i \in DOMAIN sync.log :
              (sync.log[i].stage = "transactions" /\ sync.log[i].kind = "complete")
                  => /\ i = Len(sync.log)
                     /\ Len(P) = N
                     /\ sync.log[i - 1] = EvN("transactions", "progress", N, N)

C24_Witness ==
    /\ sync.outcome = "done"
    /\ Len(sync.obpAccounts) = 2
    /\ ~sync.got[1].ok
    /\ sync.got[2].ok
    /\ Len(TxEvents("progress")) = 2
    /\ Len(TxEvents("complete")) = 1

\* the sync's log shows nothing of the given stage and kind
NoEvent(stage, kind) ==
    \A i \in DOMAIN sync.log :
        ~(sync.log[i].stage = stage /\ sync.log[i].kind = kind)

\* the sync's log shows nothing of a stage after the given one
NothingAfter(stage) ==
    \A i \in DOMAIN sync.log : StageRank(sync.log[i].stage) <= StageRank(stage)

\* C25: a stage's complete event is emitted only when the stage succeeded: a
\* sync that fails with "No banks available" has emitted no banks complete,
\* one that fails with the invalid-account-data error has emitted no accounts
\* complete, and in both cases nothing of a later stage has happened.
C25_CompleteOnlyOnSuccess ==
    (sync.pc = "idle" /\ sync.outcome = "error") =>
        /\ hook.error = "No banks available"
              => (NoEvent("banks", "complete") /\ NothingAfter("banks"))
        /\ hook.error = "Failed to fetch valid account data"
              => (NoEvent("accounts", "complete") /\ NothingAfter("accounts"))

\* C26: the active bank of a sync is the hint when one is given: after
\* selectBank(b) and the sync it started have completed, selectedBank is b and
\* the published accounts are those fetched for b.
C26_SelectedBankIsSynced ==
    (sync.pc = "idle" /\ sync.outcome = "done" /\ sync.hint # None) =>
        /\ hook.selectedBank = sync.hint
        /\ sync.bankId = sync.hint

\* C27: when the banks stage of a sync has succeeded, the bank chosen as
\* active and stored in selectedBank is the id of one of the banks in the
\* fetched list.
C27_ActiveBankIsListed ==
    [][(sync.pc = "banks_got" /\ sync'.pc = "acc_pre")
          => \E i \in DOMAIN sync.data : sync.data[i] = hook'.selectedBank]_vars

AccountsFetches == Len(SelectSeq(sync.log, LAMBDA e : e = Ev("accounts", "fetch")))

\* C28: the accounts stage retries its fetch at most once: the retry is
\* issued only after a first fetch that failed with "Not authenticated" and a
\* refresh probe that reported authenticated; whatever ends the retried fetch
\* ends the stage, and no sync issues more than two accounts fetches.
C28_AccountsRetryAtMostOnce ==
    /\ [](AccountsFetches <= 2)
    /\ [][(sync.pc # "acc_retry" /\ sync'.pc = "acc_retry") =>
            /\ sync.pc = "acc_refresh"
            /\ sync.caught = "Not authenticated"
            /\ AccountsRefreshResp("auth")
            /\ AccountsFetches = 1]_vars
    /\ [][(sync.pc = "acc_retry" /\ sync' # sync) =>
            /\ sync'.pc \in {"acc_got", "idle"}
            /\ AccountsFetches' = AccountsFetches]_vars
    /\ [][(sync.pc = "acc_refresh" /\ sync'.pc = "idle") =>
            AccountsFetches' = 1]_vars

C28_Witness ==
    /\ sync.pc = "idle"
    /\ sync.outcome \in {"error", "redirect"}
    /\ sync.caught = "Not authenticated"
    /\ AccountsFetches = 2

\* caller c begins a call of getCachedOrFetch in this step
Begins(c) ==
    /\ calls[c].state # "waiting"
    /\ calls'[c] # calls[c]

\* C29: when the producer of getCachedOrFetch(k, p) fails, the caller gets the
\* failure and no payload, the cache is left as it was (nothing for k, every
\* other entry untouched), and a later call for k that finds no live entry
\* invokes its producer again.
C29_FailuresAreNotCached ==
    /\ [][\A c \in Callers :
            (calls[c].state = "waiting" /\ calls'[c].state = "failed") =>
               /\ cache' = cache
               /\ calls'[c].result = None]_vars
    /\ [][\A c \in Callers : \A a \in Callers :
            (/\ Begins(c)
             /\ calls[a].state = "failed"
             /\ calls'[c].key = calls[a].key
             /\ ~CacheLive(cache, calls[a].key, now)) =>
               /\ calls'[c].invoked
               /\ calls'[c].state = "waiting"
               /\ producerCalls' = producerCalls + 1]_vars

\* a call for a key has failed, and a call for the same key begun later has
\* invoked its producer and stored what it returned
C29_Witness ==
    \E a \in Callers : \E b \in Callers \ {a} :
       /\ calls[a].state = "failed"
       /\ calls[b].key = calls[a].key
       /\ calls[b].start > calls[a].start
       /\ calls[b].state = "done" /\ calls[b].invoked
       /\ cache[calls[b].key].data = calls[b].result
       /\ cache[calls[b].key].timestamp = calls[b].start

\* C30: a sync started by forceRefresh() obtains every resource it reads by
\* invoking the producer: the banks, the accounts once the accounts stage
\* reads them, and the transactions of every account it is done with; nothing
\* comes to it from the cache.
C30_ForcedSyncBypassesCache ==
    sync.log # <<>> =>
       /\ Ev("banks", "fetch") \in Range(sync.log)
       /\ Ev("accounts", "progress") \in Range(sync.log) => AccountsFetches >= 1
       /\ Len(TxEvents("progress")) <= Len(TxEvents("fetch"))

\* two calls for one key begun within CACHE_EXPIRATION of each other, with no
\* store or invalidation between them, both having invoked their producer
DoubledProducer(a, b) ==
    /\ calls[a].invoked /\ calls[b].invoked
    /\ calls[a].state \in {"waiting", "done"}
    /\ calls[b].state = "waiting"
    /\ calls[a].key = calls[b].key
    /\ calls[a].verSeen = calls[b].verSeen
    /\ calls[b].start - calls[a].start < CACHE_EXPIRATION
    /\ calls[b].start >= calls[a].start

\* C31: when a second sync runs while one is in flight, the producer of a
\* cache key is still invoked at most once within the TTL window: no two
\* overlapping calls of getCachedOrFetch for one key both invoke its producer.
C31_SingleFlightPerKey ==
    \A a \in Callers : \A b \in Callers \ {a} : ~DoubledProducer(a, b)

\* the session has ended and no other is open: nobody is signed in, the login
\* surface is shown, and no sync, login or logout is under way
BetweenSessions ==
    /\ ~hook.isAuthenticated
    /\ currentPath = "/login"
    /\ sync.pc = "idle" /\ sync.outcome # "none" /\ ~sync.overtaken
    /\ loPc = "idle" /\ liPc = "idle"

\* C32: data cached under one session is never served to a later one: however
\* a session ended (logout(), or the reset fetchData makes on a 401), the
\* cache holds no entry when the next login can begin.
C32_NoCacheAcrossSessions ==
    BetweenSessions => \A k \in CacheKeys : ~cache[k].present

\* the running sync has published its accounts (setAccounts), while the
\* published transactions are still the ones an earlier sync had published
\* when this one started
SplitPublication ==
    /\ sync.pc \in {"tx_fetch", "tx_post"}
    /\ hook.accounts = transformAccounts(sync.obpAccounts)
    /\ sync.prev.transactions # <<>>
    /\ hook.transactions = sync.prev.transactions

\* C33: in every state the UI can observe, the published accounts and the
\* published transactions come from the same sync: never the accounts of a
\* newer sync beside the transactions of the previous one.
C33_AccountsAndTransactionsTogether == ~SplitPublication

\* checkAuthentication() returns in this step
CheckCompletes ==
    /\ caPc.pc # "idle"
    /\ caPc'.pc = "idle"
    /\ ~ \E path \in Paths : PageLoad(path)

\* C34: a checkAuthentication() that finds no valid authentication marks the
\* session unauthenticated and pushes "/login" only when the surface shown is
\* neither the login surface nor the root page; it starts only while
\* authCheckComplete is false and leaves it true, so that it completes at most
\* once until logout() resets the flag.
C34_NoRedirectOnLoginSurface ==
    /\ [][(CheckCompletes /\ ~hook'.isAuthenticated) =>
            /\ hook'.authCheckComplete
            /\ RedirectsToLogin(caPc) => currentPath \notin {"/login", "/"}
            /\ currentPath \in {"/login", "/"} => currentPath' = currentPath]_vars
    /\ [][(caPc.pc = "idle" /\ caPc'.pc # "idle") => ~hook.authCheckComplete]_vars
    /\ [][CheckCompletes => hook'.authCheckComplete]_vars

\* what the upstream balance of an account is worth: its amount when that is a
\* number, nothing otherwise
RECURSIVE UpstreamWorth(_, _)
UpstreamWorth(obpAccounts, n) ==
    IF n = 0 THEN 0
    ELSE UpstreamWorth(obpAccounts, n - 1) +
         (IF obpAccounts[n].balance.present /\ obpAccounts[n].balance.amount.kind = "number"
          THEN obpAccounts[n].balance.amount.cents ELSE 0)

BalanceOf(h, id) ==
    LET i == CHOOSE i \in DOMAIN h.accounts : h.accounts[i].id = id
    IN  h.accounts[i].balance.cents

\* a sendMoney between two different published accounts, or a topUpAccount of
\* a published account, succeeds in this step
TransferSucceeds ==
    /\ hook.money.pc = "api"
    /\ hook'.money.pc = "idle" /\ hook'.money.op # "none"
    /\ hook.money.op = "send" => hook.money.from # hook.money.to
    /\ HasAccount(hook.accounts, hook.money.to)
    /\ hook.money.op = "send" => HasAccount(hook.accounts, hook.money.from)

\* C36: a successful sendMoney(from, to, amount) lowers from's balance by
\* amount, raises to's by amount and leaves totalBalance as it was; a
\* successful topUpAccount(a, amount) raises a's balance and totalBalance by
\* amount; and when no sync or transfer is under way totalBalance is the sum
\* of the balances of the published accounts.
C36_BalancesFollowTransfers ==
    /\ [][TransferSucceeds =>
            LET t == hook.money IN
            /\ BalanceOf(hook', t.to) = BalanceOf(hook, t.to) + t.amount
            /\ t.op = "send" =>
                  /\ BalanceOf(hook', t.from) = BalanceOf(hook, t.from) - t.amount
                  /\ hook'.totalBalance = hook.totalBalance
            /\ t.op = "topup" =>
                  hook'.totalBalance = hook.totalBalance + t.amount]_vars
    /\ []((sync.pc = "idle" /\ hook.money.pc = "idle")
            => hook.totalBalance = SumBalances(hook.accounts))

\* instances of Error
ErrorObjects == {"Error", "TypeError", "SyntaxError"}

C38_SyncTerminates ==
    (sync.pc # "idle") ~>
        (/\ sync.pc = "idle"
         /\ sync.outcome \in {"done", "error", "redirect"}
         /\ ~hook.isLoading)

C38_Witness ==
    /\ sync.pc = "idle"
    /\ sync.outcome = "error"
    /\ hook.error = "Failed to fetch valid account data"
    /\ ~hook.isLoading
    /\ syncsLeft = 0

(***************************************************************************)
(* Response shapes: obpApi.getBanks / getAccounts / getTransactions and    *)
(* the normalisation fetchData applies to what they return                 *)
(***************************************************************************)
\* JSON values as the code inspects them
JNull == [kind |-> "null"]
JUndefined == [kind |-> "undefined"]
JString == [kind |-> "string"]
JTrue == [kind |-> "true"]
JArray(l) == [kind |-> "array", items |-> l]
JObject(f) == [kind |-> "object", props |-> f]

Truthy(j) == j.kind \notin {"null", "undefined"}
TypeofObject(j) == j.kind \in {"object", "array", "null"}
IsArray(j) == j.kind = "array"
\* `k in j`, for a j of typeof 'object' that is not null
HasProp(k, j) == j.kind = "object" /\ k \in DOMAIN j.props
\* `j.k`
Prop(j, k) == IF HasProp(k, j) THEN j.props[k] ELSE JUndefined

\* the three resources and the property that carries their list
Resources == {"banks", "accounts", "transactions"}

\* obpApi.getBanks(), browser branch: from `await response.json()` to return
NormalizeBanksResponse(data) ==
    IF Truthy(data) /\ TypeofObject(data) /\ HasProp("success", data) /\ HasProp("data", data)
    THEN LET responseData == Prop(data, "data") IN
         IF Truthy(responseData) /\ TypeofObject(responseData)
               /\ HasProp("banks", responseData) /\ IsArray(Prop(responseData, "banks"))
         THEN Prop(responseData, "banks").items
         ELSE IF IsArray(responseData) THEN responseData.items ELSE <<>>
    ELSE IF Truthy(data) /\ TypeofObject(data) /\ HasProp("banks", data)
               /\ IsArray(Prop(data, "banks"))
         THEN Prop(data, "banks").items
         ELSE IF IsArray(data) THEN data.items ELSE <<>>

\* obpApi.getAccounts() / getTransactions(), browser branch, for property p
NormalizeListResponseMutant(p, data) ==
    IF Truthy(data) /\ Truthy(Prop(data, p)) /\ IsArray(Prop(data, p))
    THEN Prop(data, p).items
    ELSE IF Truthy(data) /\ IsArray(data) THEN data.items ELSE <<>>
NormalizeListResponse(p, data) ==
    IF Truthy(data) /\ TypeofObject(data) /\ HasProp("success", data) /\ HasProp("data", data)
    THEN LET responseData == Prop(data, "data") IN
         IF Truthy(responseData) /\ TypeofObject(responseData)
               /\ HasProp(p, responseData) /\ IsArray(Prop(responseData, p))
         THEN Prop(responseData, p).items
         ELSE IF IsArray(responseData) THEN responseData.items ELSE <<>>
    ELSE IF Truthy(data) /\ Truthy(Prop(data, p)) /\ IsArray(Prop(data, p))
         THEN Prop(data, p).items
         ELSE IF Truthy(data) /\ IsArray(data) THEN data.items ELSE <<>>

\* fetchData: `banks` from banksData
HookBanks(banksData) ==
    IF IsArray(banksData) THEN banksData.items
    ELSE IF Truthy(banksData) /\ TypeofObject(banksData)
    THEN IF HasProp("banks", banksData) /\ IsArray(Prop(banksData, "banks"))
         THEN Prop(banksData, "banks").items
         ELSE IF HasProp("data", banksData) /\ Prop(banksData, "data").kind = "object"
              THEN LET d == Prop(banksData, "data") IN
                   IF HasProp("banks", d) /\ IsArray(Prop(d, "banks"))
                   THEN Prop(d, "banks").items
                   ELSE <<>>
              ELSE IF HasProp("data", banksData) /\ IsArray(Prop(banksData, "data"))
                   THEN Prop(banksData, "data").items
                   ELSE <<>>
    ELSE <<>>

\* fetchData: `Array.isArray(x) ? x : x?.accounts || []` (likewise transactions)
HookList(p, x) ==
    IF IsArray(x) THEN x.items
    ELSE IF Truthy(Prop(x, p)) /\ IsArray(Prop(x, p)) THEN Prop(x, p).items ELSE <<>>

\* the list the sync works with, from the parsed response body
NormalizedList(r, data) ==
    IF r = "banks"
    THEN HookBanks(JArray(NormalizeBanksResponse(data)))
    ELSE HookList(r, JArray(NormalizeListResponse(r, data)))

\* response bodies: the three documented shapes around a list, and bodies of
\* no documented shape
Elements == {"e1", "e2"}
ElementLists ==
    {<<>>} \cup {<<x>> : x \in Elements} \cup {<<x, y>> : x \in Elements, y \in Elements}
KnownShapes == {"bare", "wrapped", "enveloped"}
UnknownShapes ==
    {"null", "string", "otherKey", "propNotList", "envelopeNull", "envelopeString",
     "envelopeOtherKey"}

ShapedBody(shape, r, l) ==
    CASE shape = "bare" -> JArray(l)
      [] shape = "wrapped" -> JObject(r :> JArray(l))
      [] shape = "enveloped" ->
            JObject([success |-> JTrue, data |-> JObject(r :> JArray(l))])
      [] shape = "null" -> JNull
      [] shape = "string" -> JString
      [] shape = "otherKey" -> JObject([items |-> JArray(l)])
      [] shape = "propNotList" -> JObject(r :> JString)
      [] shape = "envelopeNull" -> JObject([success |-> JTrue, data |-> JNull])
      [] shape = "envelopeString" -> JObject([success |-> JTrue, data |-> JString])
      [] shape = "envelopeOtherKey" ->
            JObject([success |-> JTrue, data |-> JObject([items |-> JArray(l)])])

ShapeInputs ==
    [op : {"normalize"}, resource : Resources, shape : KnownShapes, list : ElementLists]
      \cup [op : {"normalize"}, resource : Resources, shape : UnknownShapes,
            list : {<<"e1", "e2">>}]

\* a response body arrives and is normalised
NormalizeResponse ==
    /\ fnIn.op = "normalize"
    /\ ~fnOut.done
    /\ fnOut' = [done |-> TRUE,
                 list |-> NormalizedList(fnIn.resource,
                              ShapedBody(fnIn.shape, fnIn.resource, fnIn.list))]
    /\ UNCHANGED <<gatewayVars, cacheVars, hookVars, fnIn>>

InitShape ==
    /\ InitGatewayVars
    /\ isBrowser = TRUE
    /\ cookie = NoToken
    /\ InitCacheVars
    /\ hook = InitialHook
    /\ sync = IdleSync
    /\ syncsLeft = 0
    /\ caPc = IdleCheck
    /\ loPc = "idle"
    /\ liPc = "idle"
    /\ currentPath = "/dashboard"
    /\ loggedOutFlag = FALSE
    /\ srvCookie = TRUE
    /\ srvTx = LeanLedger
    /\ sessionEnded = FALSE
    /\ fnIn \in ShapeInputs
    /\ fnOut = NoResult

NextShape == NormalizeResponse

SpecShape == InitShape /\ [][NextShape]_vars

\* C11: the same list delivered bare, as {accounts:[...]} and as
\* {success:true,data:{accounts:[...]}} (likewise banks, transactions)
\* normalises to that same list; a body of no recognised shape normalises to
\* the empty list.
C11_ShapeNormalization ==
    (fnIn.op = "normalize" /\ fnOut.done) =>
        /\ fnIn.shape \in KnownShapes => fnOut.list = fnIn.list
        /\ fnIn.shape \in UnknownShapes => fnOut.list = <<>>
C11_Witness ==
    /\ fnIn.op = "normalize" /\ fnOut.done
    /\ fnIn.shape = "enveloped"
    /\ fnIn.resource = "transactions"
    /\ fnOut.list = <<"e2", "e1">>

(***************************************************************************)
(* transformAccounts on arbitrary upstream accounts                        *)
(***************************************************************************)
AmountValues ==
    {[kind |-> "number", cents |-> c] : c \in {0, 1250, 99999}}
      \cup {[kind |-> k, cents |-> 0] : k \in AmountKinds \ {"number"}}
BalanceValues ==
    {[present |-> FALSE, amount |-> [kind |-> "undefined", cents |-> 0]]}
      \cup {[present |-> TRUE, amount |-> a] : a \in AmountValues}
LabelKinds == {"text", "absent", "number"}
UpstreamAccounts == [id : {1}, label : LabelKinds, balance : BalanceValues]
TransformInputs ==
    [op : {"transformAccounts"},
     accounts : {<<>>} \cup {<<a>> : a \in UpstreamAccounts}
                  \cup {<<a, b>> : a \in UpstreamAccounts, b \in UpstreamAccounts}]

BalanceIsNumber(balance) == balance.present /\ balance.amount.kind = "number"

\* transformAccounts(obpAccounts) is called
TransformAccountsCall ==
    /\ fnIn.op = "transformAccounts"
    /\ ~fnOut.done
    /\ fnOut' = IF TransformThrows(fnIn.accounts)
                THEN [done |-> TRUE, threw |-> TRUE, accounts |-> <<>>]
                ELSE [done |-> TRUE, threw |-> FALSE,
                      accounts |-> transformAccounts(fnIn.accounts)]
    /\ UNCHANGED <<gatewayVars, cacheVars, hookVars, fnIn>>

InitTransform ==
    /\ InitGatewayVars
    /\ isBrowser = TRUE
    /\ cookie = NoToken
    /\ InitCacheVars
    /\ hook = InitialHook
    /\ sync = IdleSync
    /\ syncsLeft = 0
    /\ caPc = IdleCheck
    /\ loPc = "idle"
    /\ liPc = "idle"
    /\ currentPath = "/dashboard"
    /\ loggedOutFlag = FALSE
    /\ srvCookie = TRUE
    /\ srvTx = LeanLedger
    /\ sessionEnded = FALSE
    /\ fnIn \in TransformInputs
    /\ fnOut = NoResult

NextTransform == TransformAccountsCall

SpecTransform == InitTransform /\ [][NextTransform]_vars

\* fetchData from transformAccounts(obpAccounts) to setTotalBalance, for a list
\* transformAccounts accepts
PublishInputs ==
    [op : {"publishAccounts"},
     accounts : {q \in {<<a>> : a \in UpstreamAccounts}
                         \cup {<<a, b>> : a \in UpstreamAccounts, b \in UpstreamAccounts} :
                    ~TransformThrows(q)}]

PublishAccountsCall ==
    /\ fnIn.op = "publishAccounts"
    /\ ~fnOut.done
    /\ fnOut' = [done |-> TRUE, threw |-> FALSE,
                 accounts |-> transformAccounts(fnIn.accounts),
                 total |-> SumBalances(transformAccounts(fnIn.accounts))]
    /\ UNCHANGED <<gatewayVars, cacheVars, hookVars, fnIn>>

InitTotal ==
    /\ InitGatewayVars
    /\ isBrowser = TRUE
    /\ cookie = NoToken
    /\ InitCacheVars
    /\ hook = InitialHook
    /\ sync = IdleSync
    /\ syncsLeft = 0
    /\ caPc = IdleCheck
    /\ loPc = "idle"
    /\ liPc = "idle"
    /\ currentPath = "/dashboard"
    /\ loggedOutFlag = FALSE
    /\ srvCookie = TRUE
    /\ srvTx = LeanLedger
    /\ sessionEnded = FALSE
    /\ fnIn \in PublishInputs
    /\ fnOut = NoResult

NextTotal == PublishAccountsCall

SpecTotal == InitTotal /\ [][NextTotal]_vars

\* what can come of obpApi.login(): a token, a non-2xx answer, a fetch that
\* rejects, a missing consumer key on the server side
LoginAnswers == {"ok", "notok", "neterr", "config"}

\* what obpApi.login() throws: APIError and ConfigurationError as they are,
\* anything else as a new APIError
LoginThrown(a) ==
    CASE a = "notok" -> "APIError"
      [] a = "config" -> "ConfigurationError"
      [] OTHER -> "APIError"

\* what login()'s catch block throws for an error of class c
LoginRejection(c) ==
    CASE c = "APIError" -> "Error"
      [] c = "ConfigurationError" -> "Error"
      [] c \in {"TypeError", "SyntaxError"} -> c
      [] OTHER -> "Error"

LoginInputs ==
    [op : {"login"}, answer : LoginAnswers,
     token0 : {NoToken} \cup TokenValues, cookie0 : {NoToken} \cup BearerTokens]

\* login(username, password) from call to return
LoginCall ==
    /\ fnIn.op = "login"
    /\ ~fnOut.done
    /\ IF fnIn.answer = "ok"
       THEN /\ SetTokenEffect("tokA")
            /\ hook' = [hook EXCEPT !.isAuthenticated = TRUE, !.authCheckComplete = TRUE,
                                    !.isLoading = FALSE, !.error = None]
            /\ fnOut' = [done |-> TRUE, threw |-> FALSE, result |-> "tokA"]
       ELSE /\ UNCHANGED <<token, cookie>>
            /\ hook' = LoginFailed([hook EXCEPT !.isLoading = TRUE, !.error = None])
            /\ fnOut' = [done |-> TRUE, threw |-> TRUE,
                         result |-> LoginRejection(LoginThrown(fnIn.answer))]
    /\ UNCHANGED <<isBrowser, ctorPc, reqPc, retryCount, targetFetches, respLog, sent,
                   reqErr, lastSet, setDuringInit, cacheVars, sync, syncsLeft, caPc,
                   loPc, liPc, currentPath, loggedOutFlag, srvCookie, srvTx,
                   sessionEnded, fnIn>>

InitLogin ==
    /\ fnIn \in LoginInputs
    /\ fnOut = NoResult
    /\ isBrowser = TRUE
    /\ token = fnIn.token0
    /\ cookie = fnIn.cookie0
    /\ ctorPc = "done"
    /\ reqPc = "idle"
    /\ retryCount = 0
    /\ targetFetches = 0
    /\ respLog = <<>>
    /\ sent = [authorization |-> None, held |-> None, credentials |-> None]
    /\ reqErr = None
    /\ lastSet = None
    /\ setDuringInit = FALSE
    /\ InitCacheVars
    /\ hook \in {[InitialHook EXCEPT !.isAuthenticated = b, !.isLoading = FALSE] :
                    b \in BOOLEAN}
    /\ sync = IdleSync
    /\ syncsLeft = 0
    /\ caPc = IdleCheck
    /\ loPc = "idle"
    /\ liPc = "idle"
    /\ currentPath = "/login"
    /\ loggedOutFlag = FALSE
    /\ srvCookie = FALSE
    /\ srvTx = LeanLedger
    /\ sessionEnded = FALSE

NextLogin == LoginCall

SpecLogin == InitLogin /\ [][NextLogin]_vars

\* C12: transformAccounts never throws, and every input account whose balance
\* is missing or whose balance amount is not a number comes out with the
\* balance "0.00".
C12_BalanceDegradesToZero ==
    (fnIn.op = "transformAccounts" /\ fnOut.done) =>
        /\ ~fnOut.threw
        /\ \A i \in DOMAIN fnIn.accounts :
              ~BalanceIsNumber(fnIn.accounts[i].balance)
                  => fnOut.accounts[i].balance = ZeroBalance

(***************************************************************************)
(* verifyTokenWithTestRequest as one call                                  *)
(***************************************************************************)
\* the call from the credential t held on entry and the answers p and b of
\* the two probe requests to what it returns and the credential it leaves;
\* threw is an exception that leaves the function
verifyTokenWithTestRequest(t, p, b) ==
    LET v == PrimaryVerdict(p)
    IN  CASE v = "true" -> [threw |-> FALSE, result |-> TRUE, token |-> Sentinel]
          [] v = "false" -> [threw |-> FALSE, result |-> FALSE, token |-> t]
          [] v = "backup" ->
                IF BackupVerdict(b)
                THEN [threw |-> FALSE, result |-> TRUE, token |-> Sentinel]
                ELSE [threw |-> FALSE, result |-> FALSE, token |-> t]
          [] OTHER -> [threw |-> TRUE, result |-> FALSE, token |-> t]

ProbeInputs ==
    [op : {"verify"}, primary : PrimaryOutcomes, backup : BackupOutcomes]

VerifyCall ==
    /\ fnIn.op = "verify"
    /\ ~fnOut.done
    /\ LET r == verifyTokenWithTestRequest(token, fnIn.primary, fnIn.backup)
       IN  /\ token' = r.token
           /\ fnOut' = [done |-> TRUE, threw |-> r.threw, result |-> r.result,
                        held |-> token]
    /\ UNCHANGED <<isBrowser, cookie, ctorPc, reqPc, retryCount, targetFetches,
                   respLog, sent, reqErr, lastSet, setDuringInit, cacheVars, hookVars, fnIn>>

InitProbe ==
    /\ isBrowser = TRUE
    /\ token \in {NoToken} \cup TokenValues
    /\ cookie = NoToken
    /\ ctorPc = "done"
    /\ reqPc = "idle"
    /\ retryCount = 0
    /\ targetFetches = 0
    /\ respLog = <<>>
    /\ sent = [authorization |-> None, held |-> None, credentials |-> None]
    /\ reqErr = None
    /\ lastSet = None
    /\ setDuringInit = FALSE
    /\ InitCacheVars
    /\ hook = InitialHook
    /\ sync = IdleSync
    /\ syncsLeft = 0
    /\ caPc = IdleCheck
    /\ loPc = "idle"
    /\ liPc = "idle"
    /\ currentPath = "/login"
    /\ loggedOutFlag = FALSE
    /\ srvCookie = FALSE
    /\ srvTx = LeanLedger
    /\ sessionEnded = FALSE
    /\ fnIn \in ProbeInputs
    /\ fnOut = NoResult

NextProbe == VerifyCall

SpecProbe == InitProbe /\ [][NextProbe]_vars

\* the probe request the call made last met a network error or a malformed
\* response
ProbeMetError ==
    \/ fnIn.primary \in {"neterr", "malformed"}
    \/ /\ PrimaryVerdict(fnIn.primary) = "backup"
       /\ fnIn.backup \in {"neterr", "okMalformed"}

\* C13: verifyTokenWithTestRequest never throws, and a network error or a
\* malformed response during either probe request makes it return false and
\* leave the held credential as it was.
C13_ProbeDegradesToFalse ==
    (fnIn.op = "verify" /\ fnOut.done) =>
        /\ ~fnOut.threw
        /\ fnOut.result \in BOOLEAN
        /\ ProbeMetError => (fnOut.result = FALSE /\ token = fnOut.held)

\* the probe met an error its code reacts to: a rejected fetch of either
\* request, or a body of the first answer that cannot be read
ProbeMetHandledError ==
    \/ fnIn.primary \in {"neterr", "malformed"}
    \/ /\ PrimaryVerdict(fnIn.primary) = "backup"
       /\ fnIn.backup = "neterr"

\* C13 (amended): verifyTokenWithTestRequest never throws; a network error
\* during either probe request or an unreadable body of the first answer
\* makes it return false and leave the held credential as it was, while the
\* second request is judged by its status alone.
C13_ProbeDegradesOnHandledError ==
    (fnIn.op = "verify" /\ fnOut.done) =>
        /\ ~fnOut.threw
        /\ fnOut.result \in BOOLEAN
        /\ ProbeMetHandledError => (fnOut.result = FALSE /\ token = fnOut.held)
        /\ (PrimaryVerdict(fnIn.primary) = "backup" /\ fnIn.backup = "okMalformed")
              => (fnOut.result = TRUE /\ token = Sentinel)

C13_Witness ==
    /\ fnIn.op = "verify"
    /\ fnOut.done
    /\ fnIn.primary = "malformed"
    /\ fnOut.held = "tokA"
    /\ token = "tokA"
    /\ fnOut.result = FALSE

====
